---- MODULE Spec2Model ----
(***************************************************************************)
(* A model of clash-speedtest: the proxy registry builder                  *)
(* (SpeedTester.LoadProxies) and the speed test engine                     *)
(* (SpeedTester.testProxy), both of src/speedtester/speedtester.go.        *)
(*                                                                         *)
(* Texts (proxy names, patterns, keywords) are sequences of one-character  *)
(* strings, so that lower-casing, trimming, splitting, substring search    *)
(* and the formatting of the duplicate suffix are computed, not assumed.   *)
(***************************************************************************)
EXTENDS Integers, Sequences, FiniteSets, TLC

\* ------------------------------------------------------------------ bounds

\* The most configuration sources of one ConfigPaths list.
MaxSources == 2
\* The most proxy declarations over all the documents of one run.
MaxDecls == 3
\* The most providers one source document declares.
MaxProviders == 1

\* The longest a request takes, in ticks of the model's clock.
MaxTicks == 2
\* The most ticks between the arrival of the probe's response and the
\* reading of the clock that measures the latency.
MaxSkew == 1
\* The largest Concurrent a configuration asks for.
MaxConcurrent == 2

\* The parameters an entry of the model carries at most.
MaxParams == 3

\* ------------------------------------------------------------------- texts

Range(s) == {s[i] : i \in DOMAIN s}

\* strings.ToLower, on the letters the model uses.
LowerChar(c) ==
    CASE c = "A" -> "a"
      [] c = "B" -> "b"
      [] OTHER -> c

ToLower(s) == [i \in DOMAIN s |-> LowerChar(s[i])]

\* strings.Contains(s, sub)
Contains(s, sub) ==
    \E i \in 0..(Len(s) - Len(sub)) : SubSeq(s, i + 1, i + Len(sub)) = sub

RECURSIVE TrimLeft(_)
TrimLeft(s) ==
    IF s # <<>> /\ Head(s) = " " THEN TrimLeft(Tail(s)) ELSE s

RECURSIVE TrimRight(_)
TrimRight(s) ==
    IF s # <<>> /\ s[Len(s)] = " " THEN TrimRight(SubSeq(s, 1, Len(s) - 1)) ELSE s

\* strings.TrimSpace
TrimSpace(s) == TrimRight(TrimLeft(s))

\* strings.Split(s, sep) for a one-character separator: the pieces between
\* the separators, empty pieces included.
RECURSIVE SplitFrom(_, _, _)
SplitFrom(s, sep, piece) ==
    IF s = <<>> THEN <<piece>>
    ELSE IF Head(s) = sep THEN <<piece>> \o SplitFrom(Tail(s), sep, <<>>)
    ELSE SplitFrom(Tail(s), sep, Append(piece, Head(s)))

Split(s, sep) == SplitFrom(s, sep, <<>>)

Digit(d) ==
    CASE d = 0 -> "0" [] d = 1 -> "1" [] d = 2 -> "2" [] d = 3 -> "3"
      [] d = 4 -> "4" [] d = 5 -> "5" [] d = 6 -> "6" [] d = 7 -> "7"
      [] d = 8 -> "8" [] d = 9 -> "9"

\* fmt's %d of a positive counter.
RECURSIVE Itoa(_)
Itoa(n) == IF n < 10 THEN <<Digit(n)>> ELSE Append(Itoa(n \div 10), Digit(n % 10))

\* The text the code puts between a name and its counter, "-" followed by the
\* two CJK characters of the word "duplicate name" (U+91CD, U+540D), which have
\* no lower case; the model writes them "$" and "%".
DupMark == <<"-", "$", "%">>

\* fmt.Sprintf("%s-<duplicate>%d", name, counter)
DupName(name, counter) == name \o DupMark \o Itoa(counter)

\* fmt.Sprintf("[%s] %s", provider, name)
ProviderProxyName(provider, name) == <<"[">> \o provider \o <<"]", " ">> \o name

\* ------------------------------------------------- configuration values

\* A value of a YAML parameter map (map[string]any): its dynamic type and
\* its text. Only a "string" value equals a string constant of the code.
StrVal(v) == [t |-> "string", v |-> v]
IntVal(v) == [t |-> "int", v |-> v]
MapVal == [t |-> "map", v |-> ""]

\* A parameter map with no checked parameter.
NoParams == [k \in {} |-> StrVal("")]

\* The proxy kinds LoadProxies keeps (the switch on p.Type()).
SupportedTypes ==
    {"Shadowsocks", "ShadowsocksR", "Snell", "Socks5", "Http", "Vmess", "Vless",
     "Trojan", "Hysteria", "Hysteria2", "WireGuard", "Tuic", "Ssh", "Mieru",
     "AnyTLS"}

\* A check that wants the parameter present.
PresentAndIn(cfg, key, list) ==
    key \in DOMAIN cfg /\ cfg[key] \in {StrVal(x) : x \in list}

\* `cfg[key]` is absent, or one of the string constants of `list`.
AbsentOrIn(cfg, key, list) ==
    key \in DOMAIN cfg => cfg[key] \in {StrVal(x) : x \in list}

\* isStashCompatible(proxy), on the proxy's kind and parameter map. The mode
\* of a Snell obfs-opts map is the key "obfs-opts.mode", present only when
\* obfs-opts is a map that holds a mode.
isStashCompatible(type, cfg) ==
    CASE type = "Shadowsocks" ->
            AbsentOrIn(cfg, "cipher",
                {"aes-128-gcm", "aes-192-gcm", "aes-256-gcm",
                 "aes-128-cfb", "aes-192-cfb", "aes-256-cfb",
                 "aes-128-ctr", "aes-192-ctr", "aes-256-ctr",
                 "rc4-md5", "chacha20", "chacha20-ietf", "xchacha20",
                 "chacha20-ietf-poly1305", "xchacha20-ietf-poly1305",
                 "2022-blake3-aes-128-gcm", "2022-blake3-aes-256-gcm"})
      [] type = "ShadowsocksR" ->
            /\ AbsentOrIn(cfg, "obfs",
                {"plain", "http_simple", "http_post", "random_head",
                 "tls1.2_ticket_auth", "tls1.2_ticket_fastauth"})
            /\ AbsentOrIn(cfg, "protocol",
                {"origin", "auth_sha1_v4", "auth_aes128_md5",
                 "auth_aes128_sha1", "auth_chain_a", "auth_chain_b"})
      [] type = "Snell" ->
            ("obfs-opts" \in DOMAIN cfg /\ cfg["obfs-opts"].t = "map")
                => AbsentOrIn(cfg, "obfs-opts.mode", {"http", "tls"})
      [] type \in {"Socks5", "Http"} -> TRUE
      [] type = "Vmess" ->
            /\ AbsentOrIn(cfg, "cipher",
                {"auto", "aes-128-gcm", "chacha20-poly1305", "none"})
            /\ AbsentOrIn(cfg, "network", {"ws", "h2", "http", "grpc"})
      [] type = "Vless" ->
            AbsentOrIn(cfg, "flow",
                {"xtls-rprx-origin", "xtls-rprx-direct", "xtls-rprx-splice",
                 "xtls-rprx-vision"})
      [] type = "Trojan" -> AbsentOrIn(cfg, "network", {"ws", "grpc"})
      [] type \in {"Hysteria", "Hysteria2", "WireGuard", "Tuic", "Ssh"} -> TRUE
      [] OTHER -> FALSE

\* net.ParseIP on the server texts of the model: the 16 bytes of an IP
\* literal (an IPv4 literal parses to its IPv4-mapped form), <<>> (nil) for a
\* text that is no IP literal.
ParseIP(server) ==
    CASE server \in {"::ffff:192.0.2.1", "::ffff:c000:201", "192.0.2.1"} ->
            <<0, 0, 0, 0, 0, 0, 0, 0, 0, 0, 255, 255, 192, 0, 2, 1>>
      [] server = "::192.0.2.1" ->
            <<0, 0, 0, 0, 0, 0, 0, 0, 0, 0, 0, 0, 192, 0, 2, 1>>
      [] server = "2001:db8::1" ->
            <<32, 1, 13, 184, 0, 0, 0, 0, 0, 0, 0, 0, 0, 0, 0, 1>>
      [] OTHER -> <<>>

\* IP.To4: the last four bytes of an address whose first ten bytes are zero
\* and whose next two are 0xff; <<>> (nil) for any other.
To4(ip) ==
    IF /\ Len(ip) = 16
       /\ \A i \in 1..10 : ip[i] = 0
       /\ ip[11] = 255
       /\ ip[12] = 255
    THEN SubSeq(ip, 13, 16)
    ELSE <<>>

\* IP.String of a four-byte address: its dotted text.
IPString(ip) ==
    CASE ip = <<192, 0, 2, 1>> -> "192.0.2.1"
      [] OTHER -> "?"

\* A conversion that hands back the text it was given.
convertMappedIPv6KeepingText(server) == server

convertMappedIPv6ToIPv4(server) ==
    LET ip == ParseIP(server)
    IN IF ip = <<>> THEN server
       ELSE IF To4(ip) # <<>> THEN IPString(To4(ip))
       ELSE server

\* ------------------------------------------------------------ documents

\* A proxy declaration of a document: the name it carries (and whether the
\* YAML value is a text), the kind adapter.ParseProxy gives it, whether
\* ParseProxy accepts it, and its other parameters.
Decl(name, isText, type, valid, params) ==
    [name |-> name, nameIsText |-> isText, type |-> type, valid |-> valid,
     params |-> params]

Decls ==
    { Decl(<<"a">>, TRUE, "Shadowsocks", TRUE,
           ("cipher" :> StrVal("aes-256-gcm")) @@ ("server" :> StrVal("::ffff:192.0.2.1"))),
      Decl(<<"B">>, TRUE, "Shadowsocks", TRUE,
           ("cipher" :> StrVal("unknown-cipher")) @@ ("server" :> StrVal("example.com"))),
      Decl(<<"a">> \o DupMark \o <<"1">>, TRUE, "Shadowsocks", TRUE, NoParams),
      Decl(<<"a">>, TRUE, "Direct", TRUE, NoParams),
      Decl(<<"B">>, TRUE, "Trojan", TRUE, ("server" :> IntVal("8080"))),
      Decl(<<"a">>, TRUE, "Shadowsocks", FALSE, NoParams),
      Decl(<<"7">>, FALSE, "Shadowsocks", TRUE, NoParams) }

\* adapter.ParseProxy(config) succeeded.
ParseOK(d) == d.valid

\* provider.ReservedName
ReservedName == <<"d", "e", "f", "a", "u", "l", "t">>

ProviderNames == {<<"p">>, ReservedName}

\* The sequences over S of length at most n.
SeqsUpTo(S, n) == UNION {[1..k -> S] : k \in 0..n}

\* ------------------------------------------------------------ name choice

\* The inner loop of the duplicate handling: the first name-<duplicate>counter,
\* counting from `counter`, that is no key yet.
RECURSIVE FreeName(_, _, _)
FreeName(name, keys, counter) ==
    IF DupName(name, counter) \notin keys THEN DupName(name, counter)
    ELSE FreeName(name, keys, counter + 1)

\* The key a direct proxy named `name` gets in the source's mapping.
DirectName(name, keys) ==
    IF name \in keys THEN FreeName(name, keys, 1) ELSE name

\* The key a provider proxy with candidate name `name` gets in the source's
\* mapping.
ProviderFinalName(name, keys) ==
    IF name \in keys THEN FreeName(name, keys, 1) ELSE name

\* A plausible slip: the entry is stored under its own key, replacing the
\* entry that holds it.
MergedNameOverwriting(k, keys) == k

\* The key an entry `k` of a source's mapping gets in the global registry.
MergedName(k, keys) ==
    IF k \in keys THEN FreeName(k, keys, 1) ELSE k

\* A mapping with no entry.
EmptyMap == [k \in {} |-> 0]

\* The refs of the CProxy a declaration becomes: where it was declared
\* (source, provider or <<>> for a direct one, position).
Ref(src, origin, i) == <<src, origin, i>>

\* Lines 119-142: the direct proxies of a source, in document order.
RECURSIVE LoadDirect(_, _, _, _)
LoadDirect(src, decls, i, proxies) ==
    IF i > Len(decls) THEN proxies
    ELSE IF ~ParseOK(decls[i]) THEN LoadDirect(src, decls, i + 1, proxies)
    ELSE LoadDirect(src, decls, i + 1,
            (DirectName(decls[i].name, DOMAIN proxies) :>
                [id |-> Ref(src, <<>>, i), type |-> decls[i].type,
                 cfgRef |-> Ref(src, <<>>, i)]) @@ proxies)

\* Lines 190-196: the provider's name -> declaration mapping; a later
\* declaration of a name replaces an earlier one, and a declaration whose
\* name is no text is left out.
pdProxies(doc) ==
    [n \in {doc[i].name : i \in {j \in DOMAIN doc : doc[j].nameIsText}} |->
        CHOOSE i \in DOMAIN doc :
            /\ doc[i].nameIsText /\ doc[i].name = n
            /\ \A j \in DOMAIN doc :
                (doc[j].nameIsText /\ doc[j].name = n) => j <= i]

\* Lines 198-223: the proxies of one provider, in the provider's order.
RECURSIVE AddProviderProxies(_, _, _, _, _)
AddProviderProxies(src, name, doc, i, proxies) ==
    IF i > Len(doc) THEN proxies
    ELSE IF ~ParseOK(doc[i]) \/ doc[i].name \notin DOMAIN pdProxies(doc)
    THEN AddProviderProxies(src, name, doc, i + 1, proxies)
    ELSE AddProviderProxies(src, name, doc, i + 1,
            (ProviderFinalName(ProviderProxyName(name, doc[i].name), DOMAIN proxies) :>
                [id |-> Ref(src, name, i), type |-> doc[i].type,
                 cfgRef |-> Ref(src, name, pdProxies(doc)[doc[i].name])]) @@ proxies)

\* --------------------------------------------------------- name filters

\* regexp.MustCompile accepts the pattern: the patterns of the model are
\* literal texts and the default ".+"; a "(" that is never closed is a
\* syntax error.
RegexpValid(pattern) == "(" \notin Range(pattern)

\* filterRegexp.MatchString(name): an unanchored, case-sensitive search.
MatchString(pattern, name) ==
    IF pattern = <<".", "+">> THEN Len(name) >= 1 ELSE Contains(name, pattern)

\* Lines 272-280: the keywords of BlockRegex, in order.
RECURSIVE KeywordsOf(_)
KeywordsOf(pieces) ==
    IF pieces = <<>> THEN <<>>
    ELSE IF TrimSpace(Head(pieces)) # <<>>
    THEN <<ToLower(TrimSpace(Head(pieces)))>> \o KeywordsOf(Tail(pieces))
    ELSE KeywordsOf(Tail(pieces))

blockKeywords(BlockRegex) ==
    IF BlockRegex # <<>> THEN KeywordsOf(Split(BlockRegex, "|")) ELSE <<>>

\* A plausible slip: the name is compared without being lower-cased.
shouldBlockCaseSensitive(name, keywords) ==
    /\ Len(keywords) > 0
    /\ \E i \in DOMAIN keywords : Contains(name, keywords[i])

\* Lines 285-296: the name contains one of the keywords.
shouldBlock(name, keywords) ==
    /\ Len(keywords) > 0
    /\ \E i \in DOMAIN keywords : Contains(ToLower(name), keywords[i])

\* Lines 282-306: the names of the registry that pass both name filters.
FilteredNames(all, FilterRegex, BlockRegex) ==
    {name \in DOMAIN all :
        /\ ~shouldBlock(name, blockKeywords(BlockRegex))
        /\ MatchString(FilterRegex, name)}

\* Lines 289-292: the names of the registry that a keyword blocks.
BlockedNames(all, BlockRegex) ==
    {name \in DOMAIN all : shouldBlock(name, blockKeywords(BlockRegex))}

\* The orders a Go map of these keys can be visited in.
Orders(S) == {o \in [1..Cardinality(S) -> S] : Range(o) = S}

\* ------------------------------------------------------------- the state

\* The caller's filters: Config.FilterRegex, Config.BlockRegex and the
\* stashCompatible argument of LoadProxies.
LoadInputs ==
    { [FilterRegex |-> <<".", "+">>, BlockRegex |-> <<>>, stashCompatible |-> FALSE],
      [FilterRegex |-> <<>>, BlockRegex |-> <<>>, stashCompatible |-> TRUE],
      [FilterRegex |-> <<>>, BlockRegex |-> <<" ", "|", "B", " ">>,
       stashCompatible |-> FALSE],
      [FilterRegex |-> <<"a">>, BlockRegex |-> <<"A", "-">>, stashCompatible |-> TRUE],
      [FilterRegex |-> <<"(">>, BlockRegex |-> <<>>, stashCompatible |-> FALSE] }

VARIABLES
    config,           \* st.config and the stashCompatible argument
    sources,          \* the source documents read so far, in ConfigPaths order
    proxies,          \* the current source's name -> CProxy mapping
    providersLeft,    \* the current source's providers not yet visited
    keysLeft,         \* the keys of proxies the merging loop has not visited
    allProxies,       \* the global registry, name -> CProxy
    configs,          \* the parameter maps the CProxy values point to
    filteredProxies,  \* the mapping LoadProxies builds for its caller
    blockedNodes,     \* st.blockedNodes
    blockedNodeCount, \* st.blockedNodeCount
    ret,              \* what LoadProxies returned: "none" yet, "ok", "NoProxiesLoaded"
    pc                \* "load", "done", or "panic" (the process crashed)

loadVars ==
    <<config, sources, proxies, providersLeft, keysLeft, allProxies, configs,
      filteredProxies, blockedNodes, blockedNodeCount, ret, pc>>

VARIABLES
    rawcfg,      \* the Config the caller gave to New
    tcfg,        \* the SpeedTester's config, as New left it
    tpc,         \* where testProxy is
    probe,       \* what the network did to the probe request
    result,      \* the Result testProxy builds
    loop,        \* the counter of the spawning or collecting loop
    tasks,       \* the sub-tasks (goroutines) of each stage
    chans,       \* downloadResults and uploadResults: the values buffered
    closed,      \* the result channels that were closed
    wg,          \* the WaitGroup's counter
    totals,      \* the accumulators: bytes, time and count of each stage
    returned     \* what testDownload or testUpload returned in each sub-task

testVars ==
    <<rawcfg, tcfg, tpc, probe, result, loop, tasks, chans, closed, wg, totals, returned>>

\* The parameters a declaration of the model can carry besides its name.
EntryKeys ==
    {"cipher", "obfs", "protocol", "obfs-opts", "obfs-opts.mode", "network", "flow",
     "server", "udp"}

\* The server texts of the model: IPv4-mapped literals in both notations, a
\* plain IPv4 literal, IPv6 literals that are not IPv4-mapped, a host name.
ServerTexts ==
    {"::ffff:192.0.2.1", "::ffff:c000:201", "192.0.2.1", "::192.0.2.1", "2001:db8::1",
     "example.com"}

\* The values a parameter can have: some inside an allow-list of the kind
\* that checks it, some inside another kind's list only, some in none, and
\* values that are no texts.
ParamValues(key) ==
    CASE key = "cipher" ->
            {StrVal("aes-256-gcm"), StrVal("auto"), StrVal("aes-128-gcm"),
             StrVal("unknown-cipher")}
      [] key = "obfs" -> {StrVal("plain"), StrVal("tls")}
      [] key = "protocol" -> {StrVal("origin"), StrVal("auth_chain_c")}
      [] key = "obfs-opts" -> {MapVal, StrVal("http")}
      [] key = "obfs-opts.mode" -> {StrVal("http"), StrVal("websocket")}
      [] key = "network" -> {StrVal("ws"), StrVal("h2"), StrVal("tcp")}
      [] key = "flow" -> {StrVal("xtls-rprx-vision"), StrVal("xtls-rprx-unknown")}
      [] key = "server" -> {StrVal(t) : t \in ServerTexts} \cup {IntVal("8080")}
      [] OTHER -> {[t |-> "bool", v |-> "true"]}

\* The parameter maps over the keys K.
RECURSIVE MapsOver(_)
MapsOver(K) ==
    IF K = {} THEN {NoParams}
    ELSE LET k == CHOOSE x \in K : TRUE
         IN {(k :> v) @@ m : v \in ParamValues(k), m \in MapsOver(K \ {k})}

\* The parameter maps of at most MaxParams parameters; a mode is a key of a
\* map only inside an obfs-opts that is a map.
ParamMaps ==
    {m \in UNION {MapsOver(K) : K \in {Q \in SUBSET EntryKeys : Cardinality(Q) <= MaxParams}} :
        "obfs-opts.mode" \in DOMAIN m =>
            "obfs-opts" \in DOMAIN m /\ m["obfs-opts"] = MapVal}

\* The kinds adapter.ParseProxy can give an entry: the supported ones and
\* one that LoadProxies does not keep.
EntryTypes == SupportedTypes \cup {"Direct"}

VARIABLES
    declared,    \* an entry as its source declares it, and stashCompatible
    entry,       \* p in the merging loop: p.Type() and p.Config
    epc          \* where the body of the merging loop is for p

entryVars == <<declared, entry, epc>>

\* The names of the registry TestProxies is given.
RunNames == {"a", "b", "c"}

VARIABLES
    registry,    \* the keys of the map TestProxies ranges over
    unvisited,   \* the keys the range loop has not produced yet
    rpc,         \* where TestProxies is: "range", "testProxy", "tester", "end"
    started,     \* the keys testProxy was called with, in call order
    received,    \* the Results the callback was called with, in call order
    finished,    \* the number of callback calls that returned
    results      \* main's results slice, which its callback appends to

runVars == <<registry, unvisited, rpc, started, received, finished, results>>

\* TestProxies was not called.
RunIdle ==
    /\ registry = {}
    /\ unvisited = {}
    /\ rpc = "idle"
    /\ started = <<>>
    /\ received = <<>>
    /\ finished = 0
    /\ results = <<>>

VARIABLES
    bytesPerSecond,  \* formatSpeed's argument: n * 1024^x bytes per second
    speed,           \* the local variable speed, in the same form
    unit,            \* the local variable unit, an index into units
    fpc,             \* "loop" until the text is printed, then "printed"
    printed          \* the text formatSpeed returns

fmtVars == <<bytesPerSecond, speed, unit, fpc, printed>>

\* formatSpeed was not called.
FormatIdle ==
    /\ bytesPerSecond = [n |-> 0, x |-> 0]
    /\ speed = [n |-> 0, x |-> 0]
    /\ unit = 0
    /\ fpc = "idle"
    /\ printed = <<>>

VARIABLES
    latencies,    \* calculateLatencyStats's argument: the successful samples
    failedPings,  \* its argument: the number of failed attempts
    stats,        \* the latencyResult it builds
    spc           \* "called" until it returns, then "returned"

statVars == <<latencies, failedPings, stats, spc>>

\* calculateLatencyStats was not called.
StatsIdle ==
    /\ latencies = <<>>
    /\ failedPings = 0
    /\ stats = [avgLatency |-> 0, jitter |-> 0, packetLoss |-> [num |-> 0, den |-> 1]]
    /\ spc = "idle"

VARIABLES
    renameNodes,  \* main's -rename flag
    svpc,         \* where saveConfig is: "wait" until called, then "written" or "nofile"
    output        \* the proxies saveConfig wrote to the output file

saveVars == <<renameNodes, svpc, output>>

\* main is run without an output path: saveConfig is not called.
SaveIdle ==
    /\ renameNodes = FALSE
    /\ svpc = "idle"
    /\ output = <<>>

VARIABLES
    envAuthKey,  \* the environment variable AUTH_KEY when webserver.New is called
    srv,         \* the Server New returned, or that New returned none
    request,     \* the request handleSpeedTest is called with
    wpc,         \* "new" before New, "serving" before the handler, "responded"
    status,      \* the status code of the response, 0 while there is none
    performed    \* performSpeedTest was called

webVars == <<envAuthKey, srv, request, wpc, status, performed>>

\* The web mode is not used.
WebIdle ==
    /\ envAuthKey = <<>>
    /\ srv = [created |-> FALSE, authKey |-> <<>>]
    /\ request = [method |-> "GET", auth |-> <<>>,
                  body |-> [readable |-> TRUE, empty |-> TRUE, yaml |-> "mapping"]]
    /\ wpc = "idle"
    /\ status = 0
    /\ performed = FALSE

\* The variables of the operations outside LoadProxies, testProxy and the
\* merging loop's body, and their values while those operations are not run.
restVars == <<runVars, fmtVars, statVars, saveVars, webVars>>

RestIdle == RunIdle /\ FormatIdle /\ StatsIdle /\ SaveIdle /\ WebIdle

vars == <<loadVars, testVars, entryVars, restVars>>

\* The number of declarations of a source document.
RECURSIVE SumLen(_, _)
SumLen(f, S) ==
    IF S = {} THEN 0
    ELSE LET x == CHOOSE y \in S : TRUE
         IN (IF f[x].ok THEN Len(f[x].doc) ELSE 0) + SumLen(f, S \ {x})

DeclsOfSource(s) ==
    IF s.ok THEN Len(s.proxies) + SumLen(s.providers, DOMAIN s.providers) ELSE 0

RECURSIVE DeclsRead(_)
DeclsRead(srcs) ==
    IF srcs = <<>> THEN 0 ELSE DeclsOfSource(Head(srcs)) + DeclsRead(Tail(srcs))

\* A source whose fetch, read or YAML parse failed.
FailedSource == [ok |-> FALSE, proxies |-> <<>>, providers |-> EmptyMap]

\* What the handling of one provider can meet: a failure (parse, Initial,
\* url, fetch, read or YAML), or a document.
ProviderOutcomes(n) ==
    {[ok |-> FALSE, doc |-> <<>>]} \cup {[ok |-> TRUE, doc |-> d] : d \in SeqsUpTo(Decls, n)}

\* The providers a source document can declare with at most n declarations
\* in all: at most MaxProviders of them; what a provider with the reserved
\* name holds is never read.
ProviderMaps(n) ==
    UNION {{f \in [P -> ProviderOutcomes(n)] :
                /\ SumLen(f, P) <= n
                /\ ReservedName \in P => ~f[ReservedName].ok} :
            P \in {Q \in SUBSET ProviderNames : Cardinality(Q) <= MaxProviders}}

\* ----------------------------------------------------- the speed test engine

Stages == {"download", "upload"}

\* A constructor that keeps the caller's Concurrent as it is.
NewKeepingConcurrent(raw) ==
    [raw EXCEPT
        !.DownloadSize = IF raw.DownloadSize < 0 THEN 100 * 1024 * 1024
                         ELSE raw.DownloadSize,
        !.UploadSize = IF raw.UploadSize < 0 THEN 10 * 1024 * 1024
                       ELSE raw.UploadSize]

\* New: the configuration a SpeedTester keeps.
New(raw) ==
    [raw EXCEPT
        !.Concurrent = IF raw.Concurrent <= 0 THEN 1 ELSE raw.Concurrent,
        !.DownloadSize = IF raw.DownloadSize < 0 THEN 100 * 1024 * 1024
                         ELSE raw.DownloadSize,
        !.UploadSize = IF raw.UploadSize < 0 THEN 10 * 1024 * 1024
                       ELSE raw.UploadSize]

\* The configurations a caller passes to New. Times are in ticks, sizes in
\* bytes, rates in bytes per tick.
RawConfigs ==
    [FastMode : BOOLEAN,
     MaxLatency : {0, 1},
     Timeout : {1, MaxTicks},
     DownloadSize : {-1, 0, 1, 4},
     UploadSize : {-1, 0, 4},
     Concurrent : 0..MaxConcurrent,
     MinDownloadSpeed : {0, 3},
     MinUploadSpeed : {0, 3}]

\* The proxy under test: its registry key, its kind, its parameter map.
TestedProxy ==
    [name |-> <<"a">>, type |-> "Shadowsocks", cfgRef |-> Ref(1, <<>>, 1)]

RECURSIVE Gcd(_, _)
Gcd(a, b) == IF b = 0 THEN a ELSE Gcd(b, a % b)

\* A float64 rate: bytes divided by a positive time, kept as a fraction in
\* lowest terms so that equal rates are equal values.
Rate(bytes, time) ==
    [num |-> bytes \div Gcd(bytes, time), den |-> time \div Gcd(bytes, time)]

ZeroRate == [num |-> 0, den |-> 1]

\* A gate that lets a stage with no measurement through.
RateBelowUnlessZero(rate, min) == rate.num > 0 /\ rate.num < min * rate.den

\* rate < min, for min in bytes per tick.
RateBelow(rate, min) == rate.num < min * rate.den

\* The Result of lines 468-472: every measurement at its zero value.
NewResult(name, proxy) ==
    [ProxyName |-> name, ProxyType |-> proxy.type, ProxyConfig |-> proxy.cfgRef,
     Latency |-> 0, Jitter |-> 0, PacketLoss |-> 0,
     DownloadSize |-> 0, DownloadTime |-> 0, DownloadSpeed |-> ZeroRate,
     UploadSize |-> 0, UploadTime |-> 0, UploadSpeed |-> ZeroRate]

\* http.Client{Timeout: budget}: a request that is not answered within a
\* positive budget fails; a zero budget is no limit.
TimesOut(budget, ticks) == budget > 0 /\ ticks > budget

\* A plausible other choice: the probe's client gets the configured Timeout.
ProbeBudgetIsTimeout(cfg) == cfg.Timeout

\* Line 475: the time budget of the probe's client.
ProbeBudget(cfg) == cfg.MaxLatency

\* What the network can do to the probe: fail to dial or to answer, answer
\* with another status than 200, or answer 200; the tick the answer arrives
\* at, and the tick at which line 492 reads the clock.
ProbeOutcomes ==
    {[kind |-> "error", responded |-> 1, elapsed |-> 1]}
    \cup {[kind |-> k, responded |-> r, elapsed |-> r + d] :
            k \in {"status", "ok"}, r \in 1..MaxTicks, d \in 0..MaxSkew}

NoProbe == [kind |-> "none", responded |-> 0, elapsed |-> 0]

\* A probe that stops nothing: fast mode is never looked at.
FastStopIgnored(cfg) == FALSE

\* Line 495: in fast mode testProxy returns after the probe.
FastStop(cfg) == cfg.FastMode

\* A pipeline without a latency ceiling.
OverCeilingNever(cfg, latency) == FALSE

\* A comparison that also stops a latency equal to the ceiling.
OverCeilingOrEqual(cfg, latency) == latency >= cfg.MaxLatency

\* Line 500: the latency is above the ceiling.
OverCeiling(cfg, latency) == latency > cfg.MaxLatency

\* A probe for which only a transport error counts: the status is not read.
ProbeFailsOnErrorOnly(cfg, p) ==
    \/ p.kind = "error"
    \/ TimesOut(ProbeBudget(cfg), p.responded)

\* client.Get returned an error, or a status that is not 200.
ProbeFails(cfg, p) ==
    \/ p.kind = "error"
    \/ TimesOut(ProbeBudget(cfg), p.responded)
    \/ p.kind = "status"

\* A quotient rounded up, so that every byte of the total is asked for.
ChunkSizeRoundedUp(cfg, stage) ==
    IF stage = "download"
    THEN (cfg.DownloadSize + cfg.Concurrent - 1) \div cfg.Concurrent
    ELSE (cfg.UploadSize + cfg.Concurrent - 1) \div cfg.Concurrent

\* The chunk size of a stage: lines 510 and 545.
ChunkSize(cfg, stage) ==
    IF stage = "download" THEN cfg.DownloadSize \div cfg.Concurrent
    ELSE cfg.UploadSize \div cfg.Concurrent

\* A sub-task that returned no result.
NilResult == [some |-> FALSE, bytes |-> 0, duration |-> 0]

SomeResult(bytes, duration) == [some |-> TRUE, bytes |-> bytes, duration |-> duration]

\* The durations a request that beat its timeout can have taken.
WithinTimeout(timeout) == {d \in 1..MaxTicks : ~TimesOut(timeout, d)}

\* testDownload (lines 619-639): nil when the request fails or the status is
\* not 200; otherwise the bytes io.Copy read, whose error is dropped, and the
\* time since the start: the whole chunk, or the part read before the body
\* was cut (by the timeout, at the timeout, or by the connection).
DownloadOutcomes(size, timeout) ==
    {NilResult}
    \cup {SomeResult(size, d) : d \in WithinTimeout(timeout)}
    \cup {SomeResult(size \div 2, d) : d \in 1..MaxTicks}

\* testUpload (lines 641-664): nil when the request fails or the status is not
\* 200; otherwise the bytes the reader handed out and the time since the
\* start.
UploadOutcomes(size, timeout) ==
    {NilResult} \cup {SomeResult(size, d) : d \in WithinTimeout(timeout)}

ChunkOutcomes(cfg, stage) ==
    IF stage = "download"
    THEN DownloadOutcomes(ChunkSize(cfg, stage), cfg.Timeout)
    ELSE UploadOutcomes(ChunkSize(cfg, stage), cfg.Timeout)

\* The places of testProxy in a stage.
At(stage, place) == <<stage, place>>

ZeroTotals == [bytes |-> 0, time |-> 0, count |-> 0]

InitTest ==
    /\ rawcfg \in RawConfigs
    /\ tcfg = New(rawcfg)
    /\ tpc = <<"probe", "start">>
    /\ probe = NoProbe
    /\ result = NewResult(TestedProxy.name, TestedProxy)
    /\ loop = 0
    /\ tasks = [s \in Stages |-> [t \in 1..MaxConcurrent |-> "new"]]
    /\ chans = [s \in Stages |-> <<>>]
    /\ closed = {}
    /\ wg = 0
    /\ totals = [s \in Stages |-> ZeroTotals]
    /\ returned = [s \in Stages |-> [t \in 1..MaxConcurrent |-> NilResult]]

\* The engine before any test is started.
TestIdle ==
    /\ rawcfg = [FastMode |-> FALSE, MaxLatency |-> 0, Timeout |-> 0,
                 DownloadSize |-> 0, UploadSize |-> 0, Concurrent |-> 1,
                 MinDownloadSpeed |-> 0, MinUploadSpeed |-> 0]
    /\ tcfg = New(rawcfg)
    /\ tpc = <<"idle", "idle">>
    /\ probe = NoProbe
    /\ result = NewResult(TestedProxy.name, TestedProxy)
    /\ loop = 0
    /\ tasks = [s \in Stages |-> [t \in 1..MaxConcurrent |-> "new"]]
    /\ chans = [s \in Stages |-> <<>>]
    /\ closed = {}
    /\ wg = 0
    /\ totals = [s \in Stages |-> ZeroTotals]
    /\ returned = [s \in Stages |-> [t \in 1..MaxConcurrent |-> NilResult]]

\* No entry is in the merging loop.
EntryIdle ==
    /\ declared = [type |-> "Direct", cfg |-> NoParams, stash |-> FALSE]
    /\ entry = [type |-> "Direct", cfg |-> NoParams]
    /\ epc = "idle"

InitLoad ==
    /\ TestIdle
    /\ EntryIdle
    /\ RestIdle
    /\ config \in LoadInputs
    /\ sources = <<>>
    /\ proxies = EmptyMap
    /\ providersLeft = {}
    /\ keysLeft = {}
    /\ allProxies = EmptyMap
    /\ configs = EmptyMap
    /\ filteredProxies = EmptyMap
    /\ blockedNodes = <<>>
    /\ blockedNodeCount = 0
    /\ ret = "none"
    /\ pc = "load"

\* The loop over ConfigPaths is between two sources.
BetweenSources == pc = "load" /\ providersLeft = {} /\ keysLeft = {}

\* The number of the source being read.
CurSource == Len(sources)

\* The parameter maps of the declarations of a document that became, or may
\* become, the Config of a CProxy.
ConfigsOf(src, origin, doc) ==
    [r \in {Ref(src, origin, i) : i \in DOMAIN doc} |-> doc[r[3]].params]

\* A plausible slip: a source that cannot be read ends the whole load.
SkipSourceAborting ==
    /\ BetweenSources
    /\ Len(sources) < MaxSources
    /\ sources' = Append(sources, FailedSource)
    /\ ret' = "NoProxiesLoaded"
    /\ pc' = "done"
    /\ UNCHANGED <<config, proxies, providersLeft, keysLeft, allProxies, configs,
                   filteredProxies, blockedNodes, blockedNodeCount>>
    /\ UNCHANGED testVars
    /\ UNCHANGED entryVars
    /\ UNCHANGED restVars

\* Lines 85-113: the source cannot be fetched, read or parsed; it is skipped.
SkipSource ==
    /\ BetweenSources
    /\ Len(sources) < MaxSources
    /\ sources' = Append(sources, FailedSource)
    /\ UNCHANGED <<config, proxies, providersLeft, keysLeft, allProxies, configs,
                   filteredProxies, blockedNodes, blockedNodeCount, ret, pc>>
    /\ UNCHANGED testVars
    /\ UNCHANGED entryVars
    /\ UNCHANGED restVars

\* Lines 106-142: the source is parsed and its direct proxies are loaded.
BeginSource ==
    /\ BetweenSources
    /\ Len(sources) < MaxSources
    /\ \E direct \in SeqsUpTo(Decls, MaxDecls - DeclsRead(sources)) :
       \E provs \in ProviderMaps(MaxDecls - DeclsRead(sources) - Len(direct)) :
        /\ sources' = Append(sources, [ok |-> TRUE, proxies |-> direct,
                                        providers |-> provs])
        /\ proxies' = LoadDirect(Len(sources) + 1, direct, 1, EmptyMap)
        /\ configs' = ConfigsOf(Len(sources) + 1, <<>>, direct) @@ configs
        /\ providersLeft' = DOMAIN provs
        /\ keysLeft' = DOMAIN proxies'
    /\ UNCHANGED <<config, allProxies, filteredProxies, blockedNodes,
                   blockedNodeCount, ret, pc>>
    /\ UNCHANGED testVars
    /\ UNCHANGED entryVars
    /\ UNCHANGED restVars

\* Lines 145-188: a provider with the reserved name, or one that cannot be
\* parsed, initialised, fetched, read or decoded, is skipped.
SkipProvider ==
    /\ pc = "load"
    /\ \E name \in providersLeft :
        /\ name = ReservedName \/ ~sources[CurSource].providers[name].ok
        /\ providersLeft' = providersLeft \ {name}
    /\ UNCHANGED <<config, sources, proxies, keysLeft, allProxies, configs,
                   filteredProxies, blockedNodes, blockedNodeCount, ret, pc>>
    /\ UNCHANGED testVars
    /\ UNCHANGED entryVars
    /\ UNCHANGED restVars

\* Lines 145-224: the proxies of one provider join the source's mapping. The
\* providers of a source are visited in the order of a Go map: any order.
LoadProvider ==
    /\ pc = "load"
    /\ \E name \in providersLeft :
        /\ name # ReservedName /\ sources[CurSource].providers[name].ok
        /\ proxies' = AddProviderProxies(CurSource, name,
                        sources[CurSource].providers[name].doc, 1, proxies)
        /\ configs' = ConfigsOf(CurSource, name,
                        sources[CurSource].providers[name].doc) @@ configs
        /\ providersLeft' = providersLeft \ {name}
        /\ keysLeft' = DOMAIN proxies'
    /\ UNCHANGED <<config, sources, allProxies, filteredProxies, blockedNodes,
                   blockedNodeCount, ret, pc>>
    /\ UNCHANGED testVars
    /\ UNCHANGED entryVars
    /\ UNCHANGED restVars

\* The CProxy's Config map, and whether line 241's server.(string) fails on it.
ConfigOf(p) == configs[p.cfgRef]

ServerNotText(p) ==
    "server" \in DOMAIN ConfigOf(p) /\ ConfigOf(p)["server"].t # "string"

\* Lines 239-242: the parameter maps after the server of p is normalised.
Normalised(p) ==
    IF "server" \in DOMAIN ConfigOf(p)
    THEN [configs EXCEPT ![p.cfgRef] =
            [ConfigOf(p) EXCEPT !["server"] =
                StrVal(convertMappedIPv6ToIPv4(ConfigOf(p)["server"].v))]]
    ELSE configs

\* The merging loop visits the keys of proxies in the order of a Go map: any
\* key not visited yet can be the next one.
Visiting(k) == pc = "load" /\ providersLeft = {} /\ k \in keysLeft

\* A loop that tests the kind only after the entry was given its name in the
\* registry.
MergeSkipTypeHoldingName ==
    \E k \in keysLeft :
        /\ Visiting(k)
        /\ proxies[k].type \notin SupportedTypes
        /\ allProxies' = (MergedName(k, DOMAIN allProxies) :> proxies[k]) @@ allProxies
        /\ keysLeft' = keysLeft \ {k}
        /\ UNCHANGED <<config, sources, proxies, providersLeft, configs,
                       filteredProxies, blockedNodes, blockedNodeCount, ret, pc>>
        /\ UNCHANGED testVars
        /\ UNCHANGED entryVars
        /\ UNCHANGED restVars

\* Lines 229-237: an entry of an unsupported kind is skipped.
MergeSkipType ==
    \E k \in keysLeft :
        /\ Visiting(k)
        /\ proxies[k].type \notin SupportedTypes
        /\ keysLeft' = keysLeft \ {k}
        /\ UNCHANGED <<config, sources, proxies, providersLeft, allProxies, configs,
                       filteredProxies, blockedNodes, blockedNodeCount, ret, pc>>
        /\ UNCHANGED testVars
        /\ UNCHANGED entryVars
        /\ UNCHANGED restVars

\* Line 241: the type assertion server.(string) on a server that is no text
\* panics, and nothing recovers it.
MergePanic ==
    \E k \in keysLeft :
        /\ Visiting(k)
        /\ proxies[k].type \in SupportedTypes
        /\ ServerNotText(proxies[k])
        /\ pc' = "panic"
        /\ UNCHANGED <<config, sources, proxies, providersLeft, keysLeft, allProxies,
                       configs, filteredProxies, blockedNodes, blockedNodeCount, ret>>
        /\ UNCHANGED testVars
        /\ UNCHANGED entryVars
        /\ UNCHANGED restVars

\* Lines 239-248: the server is normalised, and the entry is then skipped for
\* not being Stash compatible.
MergeSkipIncompatible ==
    \E k \in keysLeft :
        /\ Visiting(k)
        /\ proxies[k].type \in SupportedTypes
        /\ ~ServerNotText(proxies[k])
        /\ configs' = Normalised(proxies[k])
        /\ config.stashCompatible
        /\ ~isStashCompatible(proxies[k].type, configs'[proxies[k].cfgRef])
        /\ keysLeft' = keysLeft \ {k}
        /\ UNCHANGED <<config, sources, proxies, providersLeft, allProxies,
                       filteredProxies, blockedNodes, blockedNodeCount, ret, pc>>
        /\ UNCHANGED testVars
        /\ UNCHANGED entryVars
        /\ UNCHANGED restVars

\* Lines 239-264: the server is normalised and the entry joins the registry
\* under a name that is no key of it yet.
MergeAdd ==
    \E k \in keysLeft :
        /\ Visiting(k)
        /\ proxies[k].type \in SupportedTypes
        /\ ~ServerNotText(proxies[k])
        /\ configs' = Normalised(proxies[k])
        /\ config.stashCompatible
            => isStashCompatible(proxies[k].type, configs'[proxies[k].cfgRef])
        /\ allProxies' = (MergedName(k, DOMAIN allProxies) :> proxies[k]) @@ allProxies
        /\ keysLeft' = keysLeft \ {k}
        /\ UNCHANGED <<config, sources, proxies, providersLeft, filteredProxies,
                       blockedNodes, blockedNodeCount, ret, pc>>
        /\ UNCHANGED testVars
        /\ UNCHANGED entryVars
        /\ UNCHANGED restVars

\* A plausible slip: the emptiness check is forgotten.
LoadResultUnchecked(filtered) == "ok"

\* Lines 310-315: the error when nothing is left, the mapping otherwise.
LoadResult(filtered) ==
    IF Cardinality(DOMAIN filtered) = 0 THEN "NoProxiesLoaded" ELSE "ok"

\* Line 271: regexp.MustCompile panics on a pattern that does not compile.
FilterPanic ==
    /\ BetweenSources
    /\ ~RegexpValid(config.FilterRegex)
    /\ pc' = "panic"
    /\ UNCHANGED <<config, sources, proxies, providersLeft, keysLeft, allProxies,
                   configs, filteredProxies, blockedNodes, blockedNodeCount, ret>>
    /\ UNCHANGED testVars
    /\ UNCHANGED entryVars
    /\ UNCHANGED restVars

\* Lines 268-316: the list of sources is exhausted; the name filters are
\* applied and LoadProxies returns. The registry is visited in the order of a
\* Go map, so the blocked names are recorded in any order.
ApplyFilters ==
    /\ BetweenSources
    /\ RegexpValid(config.FilterRegex)
    /\ filteredProxies' =
            [name \in FilteredNames(allProxies, config.FilterRegex, config.BlockRegex)
                |-> allProxies[name]]
    /\ blockedNodes' \in Orders(BlockedNames(allProxies, config.BlockRegex))
    /\ blockedNodeCount' = Len(blockedNodes')
    /\ ret' = LoadResult(filteredProxies')
    /\ pc' = "done"
    /\ UNCHANGED <<config, sources, proxies, providersLeft, keysLeft, allProxies,
                   configs>>
    /\ UNCHANGED testVars
    /\ UNCHANGED entryVars
    /\ UNCHANGED restVars

NextLoad ==
    \/ SkipSource
    \/ BeginSource
    \/ SkipProvider
    \/ LoadProvider
    \/ MergeSkipType
    \/ MergePanic
    \/ MergeSkipIncompatible
    \/ MergeAdd
    \/ FilterPanic
    \/ ApplyFilters

Spec == InitLoad /\ [][NextLoad]_vars


\* ------------------------------------------------------ testProxy's steps

\* Lines 474-489: the probe fails (no connection, an error, the client's time
\* budget, or a status other than 200); testProxy returns the Result as it is.
ProbeFailed ==
    /\ tpc = <<"probe", "start">>
    /\ \E p \in ProbeOutcomes :
        /\ ProbeFails(tcfg, p)
        /\ probe' = p
    /\ tpc' = <<"done", "probe">>
    /\ UNCHANGED <<rawcfg, tcfg, result, loop, tasks, chans, closed, wg, totals, returned>>
    /\ UNCHANGED loadVars
    /\ UNCHANGED entryVars
    /\ UNCHANGED restVars

\* Lines 474-497: the probe succeeds in fast mode; the latency is recorded and
\* testProxy returns.
ProbeFast ==
    /\ tpc = <<"probe", "start">>
    /\ FastStop(tcfg)
    /\ \E p \in ProbeOutcomes :
        /\ ~ProbeFails(tcfg, p)
        /\ probe' = p
        /\ result' = [result EXCEPT !.Latency = p.elapsed]
    /\ tpc' = <<"done", "fast">>
    /\ UNCHANGED <<rawcfg, tcfg, loop, tasks, chans, closed, wg, totals, returned>>
    /\ UNCHANGED loadVars
    /\ UNCHANGED entryVars
    /\ UNCHANGED restVars

\* Lines 474-502: the probe succeeds, fast mode is off and the latency is
\* above MaxLatency; testProxy returns.
ProbeSlow ==
    /\ tpc = <<"probe", "start">>
    /\ ~FastStop(tcfg)
    /\ \E p \in ProbeOutcomes :
        /\ ~ProbeFails(tcfg, p)
        /\ OverCeiling(tcfg, p.elapsed)
        /\ probe' = p
        /\ result' = [result EXCEPT !.Latency = p.elapsed]
    /\ tpc' = <<"done", "slow">>
    /\ UNCHANGED <<rawcfg, tcfg, loop, tasks, chans, closed, wg, totals, returned>>
    /\ UNCHANGED loadVars
    /\ UNCHANGED entryVars
    /\ UNCHANGED restVars

\* Lines 474-510: the probe succeeds and the pipeline goes on to the download
\* stage.
ProbePassed ==
    /\ tpc = <<"probe", "start">>
    /\ ~FastStop(tcfg)
    /\ \E p \in ProbeOutcomes :
        /\ ~ProbeFails(tcfg, p)
        /\ ~OverCeiling(tcfg, p.elapsed)
        /\ probe' = p
        /\ result' = [result EXCEPT !.Latency = p.elapsed]
    /\ tpc' = At("download", "start")
    /\ UNCHANGED <<rawcfg, tcfg, loop, tasks, chans, closed, wg, totals, returned>>
    /\ UNCHANGED loadVars
    /\ UNCHANGED entryVars
    /\ UNCHANGED restVars

\* Where testProxy goes after a stage: from download to upload, from upload
\* to its return.
AfterStage(stage) ==
    IF stage = "download" THEN At("upload", "start") ELSE <<"done", "end">>

\* Lines 510-511 and 545-546: a stage whose chunk size is not positive is
\* skipped.
SkipStage ==
    \E s \in Stages :
        /\ tpc = At(s, "start")
        /\ ~(ChunkSize(tcfg, s) > 0)
        /\ tpc' = AfterStage(s)
        /\ UNCHANGED <<rawcfg, tcfg, probe, result, loop, tasks, chans, closed, wg, totals, returned>>
        /\ UNCHANGED loadVars
        /\ UNCHANGED entryVars
        /\ UNCHANGED restVars

\* Lines 512 and 547: the stage's result channel is made.
BeginStage ==
    \E s \in Stages :
        /\ tpc = At(s, "start")
        /\ ChunkSize(tcfg, s) > 0
        /\ tpc' = At(s, "spawn")
        /\ loop' = 0
        /\ UNCHANGED <<rawcfg, tcfg, probe, result, tasks, chans, closed, wg, totals, returned>>
        /\ UNCHANGED loadVars
        /\ UNCHANGED entryVars
        /\ UNCHANGED restVars

\* Lines 514-520 and 549-555: one turn of the spawning loop: wg.Add(1) and a
\* new goroutine.
Spawn ==
    \E s \in Stages :
        /\ tpc = At(s, "spawn")
        /\ loop < tcfg.Concurrent
        /\ wg' = wg + 1
        /\ tasks' = [tasks EXCEPT ![s][loop + 1] = "running"]
        /\ loop' = loop + 1
        /\ UNCHANGED <<rawcfg, tcfg, tpc, probe, result, chans, closed, totals, returned>>
        /\ UNCHANGED loadVars
        /\ UNCHANGED entryVars
        /\ UNCHANGED restVars

\* The spawning loop ends and testProxy reaches wg.Wait().
SpawnEnd ==
    \E s \in Stages :
        /\ tpc = At(s, "spawn")
        /\ ~(loop < tcfg.Concurrent)
        /\ tpc' = At(s, "wait")
        /\ UNCHANGED <<rawcfg, tcfg, probe, result, loop, tasks, chans, closed, wg, totals, returned>>
        /\ UNCHANGED loadVars
        /\ UNCHANGED entryVars
        /\ UNCHANGED restVars

\* A channel made without a buffer: a send waits for a receiver.
Unbuffered(cfg) == 0

\* Lines 512 and 547: make(chan ..., st.config.Concurrent), the number of
\* values the stage's channel holds before a send has to wait.
Capacity(cfg) == cfg.Concurrent

\* Lines 518 and 553: a sub-task's request ends and its result, or nil, is
\* sent on the stage's channel as soon as the channel has room.
TaskSend ==
    \E s \in Stages : \E t \in 1..MaxConcurrent :
        /\ tasks[s][t] = "running"
        /\ Len(chans[s]) < Capacity(tcfg)
        /\ \E r \in ChunkOutcomes(tcfg, s) :
            /\ returned' = [returned EXCEPT ![s][t] = r]
            /\ chans' = [chans EXCEPT ![s] = Append(@, r)]
        /\ tasks' = [tasks EXCEPT ![s][t] = "sent"]
        /\ UNCHANGED <<rawcfg, tcfg, tpc, probe, result, loop, closed, wg, totals>>
        /\ UNCHANGED loadVars
        /\ UNCHANGED entryVars
        /\ UNCHANGED restVars

\* Lines 517 and 552: the deferred wg.Done() of a sub-task that has sent.
TaskDone ==
    \E s \in Stages : \E t \in 1..MaxConcurrent :
        /\ tasks[s][t] = "sent"
        /\ tasks' = [tasks EXCEPT ![s][t] = "done"]
        /\ wg' = wg - 1
        /\ UNCHANGED <<rawcfg, tcfg, tpc, probe, result, loop, chans, closed, totals, returned>>
        /\ UNCHANGED loadVars
        /\ UNCHANGED entryVars
        /\ UNCHANGED restVars

\* A stage that goes on to collect without waiting for its sub-tasks.
WaitWithoutBarrier ==
    \E s \in Stages :
        /\ tpc = At(s, "wait")
        /\ tpc' = At(s, "collect")
        /\ loop' = 0
        /\ UNCHANGED <<rawcfg, tcfg, probe, result, tasks, chans, closed, wg, totals, returned>>
        /\ UNCHANGED loadVars
        /\ UNCHANGED entryVars
        /\ UNCHANGED restVars

\* Lines 521 and 556: wg.Wait() returns when the counter is zero.
Wait ==
    \E s \in Stages :
        /\ tpc = At(s, "wait")
        /\ wg = 0
        /\ tpc' = At(s, "collect")
        /\ loop' = 0
        /\ UNCHANGED <<rawcfg, tcfg, probe, result, tasks, chans, closed, wg, totals, returned>>
        /\ UNCHANGED loadVars
        /\ UNCHANGED entryVars
        /\ UNCHANGED restVars

\* The accumulators after a received value: nil adds nothing.
Accumulate(acc, r) ==
    IF r.some
    THEN [bytes |-> acc.bytes + r.bytes, time |-> acc.time + r.duration,
          count |-> acc.count + 1]
    ELSE acc

\* A collecting loop that reads the head of the channel and leaves it there.
CollectPeeking ==
    \E s \in Stages :
        /\ tpc = At(s, "collect")
        /\ loop < tcfg.Concurrent
        /\ chans[s] # <<>>
        /\ totals' = [totals EXCEPT ![s] = Accumulate(@, Head(chans[s]))]
        /\ loop' = loop + 1
        /\ UNCHANGED <<rawcfg, tcfg, tpc, probe, result, tasks, chans, closed, wg, returned>>
        /\ UNCHANGED loadVars
        /\ UNCHANGED entryVars
        /\ UNCHANGED restVars

\* Lines 523-529 and 558-564: one turn of the collecting loop: a value is
\* received from the stage's channel and added to the stage's accumulators.
Collect ==
    \E s \in Stages :
        /\ tpc = At(s, "collect")
        /\ loop < tcfg.Concurrent
        /\ chans[s] # <<>>
        /\ totals' = [totals EXCEPT ![s] = Accumulate(@, Head(chans[s]))]
        /\ chans' = [chans EXCEPT ![s] = Tail(@)]
        /\ loop' = loop + 1
        /\ UNCHANGED <<rawcfg, tcfg, tpc, probe, result, tasks, closed, wg, returned>>
        /\ UNCHANGED loadVars
        /\ UNCHANGED entryVars
        /\ UNCHANGED restVars

\* A mean over the sub-tasks started, not over those that succeeded.
AggregatedOverAllTasks(res, stage, acc) ==
    IF acc.count > 0
    THEN IF stage = "download"
         THEN [res EXCEPT !.DownloadSize = acc.bytes,
                          !.DownloadTime = acc.time \div tcfg.Concurrent,
                          !.DownloadSpeed = Rate(acc.bytes, acc.time \div tcfg.Concurrent)]
         ELSE [res EXCEPT !.UploadSize = acc.bytes,
                          !.UploadTime = acc.time \div tcfg.Concurrent,
                          !.UploadSpeed = Rate(acc.bytes, acc.time \div tcfg.Concurrent)]
    ELSE res

\* Lines 532-536 and 567-571: the stage's fields of the Result.
Aggregated(res, stage, acc) ==
    IF acc.count > 0
    THEN IF stage = "download"
         THEN [res EXCEPT !.DownloadSize = acc.bytes,
                          !.DownloadTime = acc.time \div acc.count,
                          !.DownloadSpeed = Rate(acc.bytes, acc.time \div acc.count)]
         ELSE [res EXCEPT !.UploadSize = acc.bytes,
                          !.UploadTime = acc.time \div acc.count,
                          !.UploadSpeed = Rate(acc.bytes, acc.time \div acc.count)]
    ELSE res

\* A download gate that reads the upload threshold.
FinishDownloadGatedByUploadSpeed ==
    /\ tpc = At("download", "collect")
    /\ ~(loop < tcfg.Concurrent)
    /\ closed' = closed \cup {"download"}
    /\ result' = Aggregated(result, "download", totals["download"])
    /\ tpc' = IF RateBelow(result'.DownloadSpeed, tcfg.MinUploadSpeed)
              THEN <<"done", "download">> ELSE AfterStage("download")
    /\ UNCHANGED <<rawcfg, tcfg, probe, loop, tasks, chans, wg, totals, returned>>
    /\ UNCHANGED loadVars
    /\ UNCHANGED entryVars
    /\ UNCHANGED restVars

\* Lines 530-542: the download channel is closed, the download fields are
\* set, and testProxy returns if the rate is below MinDownloadSpeed.
FinishDownload ==
    /\ tpc = At("download", "collect")
    /\ ~(loop < tcfg.Concurrent)
    /\ closed' = closed \cup {"download"}
    /\ result' = Aggregated(result, "download", totals["download"])
    /\ tpc' = IF RateBelow(result'.DownloadSpeed, tcfg.MinDownloadSpeed)
              THEN <<"done", "download">> ELSE AfterStage("download")
    /\ UNCHANGED <<rawcfg, tcfg, probe, loop, tasks, chans, wg, totals, returned>>
    /\ UNCHANGED loadVars
    /\ UNCHANGED entryVars
    /\ UNCHANGED restVars

\* Lines 565-574: the upload channel is closed, the upload fields are set,
\* and testProxy returns.
FinishUpload ==
    /\ tpc = At("upload", "collect")
    /\ ~(loop < tcfg.Concurrent)
    /\ closed' = closed \cup {"upload"}
    /\ result' = Aggregated(result, "upload", totals["upload"])
    /\ tpc' = AfterStage("upload")
    /\ UNCHANGED <<rawcfg, tcfg, probe, loop, tasks, chans, wg, totals, returned>>
    /\ UNCHANGED loadVars
    /\ UNCHANGED entryVars
    /\ UNCHANGED restVars

\* The registry builder before any load is started.
LoadIdle ==
    /\ config = [FilterRegex |-> <<>>, BlockRegex |-> <<>>, stashCompatible |-> FALSE]
    /\ sources = <<>>
    /\ proxies = EmptyMap
    /\ providersLeft = {}
    /\ keysLeft = {}
    /\ allProxies = EmptyMap
    /\ configs = EmptyMap
    /\ filteredProxies = EmptyMap
    /\ blockedNodes = <<>>
    /\ blockedNodeCount = 0
    /\ ret = "none"
    /\ pc = "idle"

InitTestProxy == InitTest /\ LoadIdle /\ EntryIdle /\ RestIdle

NextTest ==
    \/ ProbeFailed
    \/ ProbeFast
    \/ ProbeSlow
    \/ ProbePassed
    \/ SkipStage
    \/ BeginStage
    \/ Spawn
    \/ SpawnEnd
    \/ TaskSend
    \/ TaskDone
    \/ Wait
    \/ Collect
    \/ FinishDownload
    \/ FinishUpload

\* One call of testProxy, from every configuration New can leave.
SpecTest == InitTestProxy /\ [][NextTest]_vars

\* The same, when every request returns and every goroutine that can take a
\* step is scheduled in the end.
SpecTestFair == SpecTest /\ WF_vars(NextTest)


\* --------------------------------- the body of the merging loop, by entry

InitEntry ==
    /\ declared \in [type : EntryTypes, cfg : ParamMaps, stash : BOOLEAN]
    /\ entry = [type |-> declared.type, cfg |-> declared.cfg]
    /\ epc = "type"
    /\ TestIdle
    /\ LoadIdle
    /\ RestIdle

\* Lines 229-237: an entry of an unsupported kind is skipped.
EntrySkipType ==
    /\ epc = "type"
    /\ entry.type \notin SupportedTypes
    /\ epc' = "dropped"
    /\ UNCHANGED <<declared, entry>>
    /\ UNCHANGED loadVars
    /\ UNCHANGED testVars
    /\ UNCHANGED restVars

EntryTypeSupported ==
    /\ epc = "type"
    /\ entry.type \in SupportedTypes
    /\ epc' = "server"
    /\ UNCHANGED <<declared, entry>>
    /\ UNCHANGED loadVars
    /\ UNCHANGED testVars
    /\ UNCHANGED restVars

\* Line 240: the entry has no server parameter.
EntryNoServer ==
    /\ epc = "server"
    /\ "server" \notin DOMAIN entry.cfg
    /\ epc' = "stash"
    /\ UNCHANGED <<declared, entry>>
    /\ UNCHANGED loadVars
    /\ UNCHANGED testVars
    /\ UNCHANGED restVars

\* Line 241: server.(string) on a server that is no text panics.
EntryPanic ==
    /\ epc = "server"
    /\ "server" \in DOMAIN entry.cfg
    /\ entry.cfg["server"].t # "string"
    /\ epc' = "panic"
    /\ UNCHANGED <<declared, entry>>
    /\ UNCHANGED loadVars
    /\ UNCHANGED testVars
    /\ UNCHANGED restVars

\* Line 241: the server is replaced by its normalised text.
EntryNormalise ==
    /\ epc = "server"
    /\ "server" \in DOMAIN entry.cfg
    /\ entry.cfg["server"].t = "string"
    /\ entry' = [entry EXCEPT !.cfg["server"] =
                    StrVal(convertMappedIPv6ToIPv4(entry.cfg["server"].v))]
    /\ epc' = "stash"
    /\ UNCHANGED declared
    /\ UNCHANGED loadVars
    /\ UNCHANGED testVars
    /\ UNCHANGED restVars

\* Lines 245-248: the entry is skipped for not being Stash compatible.
EntrySkipIncompatible ==
    /\ epc = "stash"
    /\ declared.stash
    /\ ~isStashCompatible(entry.type, entry.cfg)
    /\ epc' = "dropped"
    /\ UNCHANGED <<declared, entry>>
    /\ UNCHANGED loadVars
    /\ UNCHANGED testVars
    /\ UNCHANGED restVars

\* Lines 245-264: the entry is kept and joins the registry.
EntryKeep ==
    /\ epc = "stash"
    /\ declared.stash => isStashCompatible(entry.type, entry.cfg)
    /\ epc' = "kept"
    /\ UNCHANGED <<declared, entry>>
    /\ UNCHANGED loadVars
    /\ UNCHANGED testVars
    /\ UNCHANGED restVars

NextEntry ==
    \/ EntrySkipType
    \/ EntryTypeSupported
    \/ EntryNoServer
    \/ EntryPanic
    \/ EntryNormalise
    \/ EntrySkipIncompatible
    \/ EntryKeep

\* The body of the merging loop on one entry, for every entry of the model.
SpecEntry == InitEntry /\ [][NextEntry]_vars

\* ------------------------------------------------- the registry builder's claims

\* The declaration behind a ref.
DeclAt(srcs, ref) ==
    IF ref[2] = <<>> THEN srcs[ref[1]].proxies[ref[3]]
    ELSE srcs[ref[1]].providers[ref[2]].doc[ref[3]]

\* The direct declarations of the readable sources.
DirectRefs(srcs) ==
    UNION {{Ref(i, <<>>, j) : j \in DOMAIN srcs[i].proxies} :
            i \in {n \in DOMAIN srcs : srcs[n].ok}}

\* The declarations of the providers that were read (not failed, not reserved).
ProviderRefs(srcs) ==
    UNION {UNION {{Ref(i, name, j) : j \in DOMAIN srcs[i].providers[name].doc} :
                    name \in {n \in DOMAIN srcs[i].providers :
                                n # ReservedName /\ srcs[i].providers[n].ok}} :
            i \in {n \in DOMAIN srcs : srcs[n].ok}}

\* The provider declaration has a parameter map under its name in the
\* provider's document.
ConfigFound(srcs, ref) ==
    \E j \in DOMAIN srcs[ref[1]].providers[ref[2]].doc :
        LET d == srcs[ref[1]].providers[ref[2]].doc[j]
        IN d.nameIsText /\ d.name = DeclAt(srcs, ref).name

\* The parameter map the compatibility filter reads for a declaration: its
\* own for a direct proxy; for a provider proxy the last one declared under
\* its name in the provider's document, if there is one.
FilterParams(srcs, ref) ==
    IF ref[2] # <<>> /\ ConfigFound(srcs, ref)
    THEN LET doc == srcs[ref[1]].providers[ref[2]].doc
             last == CHOOSE j \in DOMAIN doc :
                        /\ doc[j].nameIsText /\ doc[j].name = doc[ref[3]].name
                        /\ \A m \in DOMAIN doc :
                            (doc[m].nameIsText /\ doc[m].name = doc[ref[3]].name)
                                => m <= j
         IN doc[last].params
    ELSE DeclAt(srcs, ref).params

\* The declaration parsed, has a supported type and passes the compatibility
\* filter when that filter is on.
Admitted(srcs, ref, stash) ==
    /\ ParseOK(DeclAt(srcs, ref))
    /\ DeclAt(srcs, ref).type \in SupportedTypes
    /\ stash => isStashCompatible(DeclAt(srcs, ref).type, FilterParams(srcs, ref))

\* The allow pattern matches every name of the registry and there is no
\* block keyword.
NoNameFilter ==
    /\ blockKeywords(config.BlockRegex) = <<>>
    /\ \A n \in DOMAIN allProxies : MatchString(config.FilterRegex, n)

\* The proxies (by the place of their declaration) a mapping holds.
IdsOf(m) == {m[k].id : k \in DOMAIN m}

\* C1 as stated: with no name filter, the returned registry holds one entry
\* per proxy, direct or provider, that parsed, has a supported type and passes
\* the compatibility filter, each under a key of its own.
C1_AllAdmittedReturned ==
    (ret = "ok" /\ NoNameFilter) =>
        LET want == {r \in DirectRefs(sources) \cup ProviderRefs(sources) :
                        Admitted(sources, r, config.stashCompatible)}
        IN /\ Cardinality(DOMAIN filteredProxies) = Cardinality(want)
           /\ IdsOf(filteredProxies) = want

\* C1, amended: with no name filter, the returned registry holds one entry,
\* under a key of its own, per direct proxy that parsed and per provider proxy
\* that parsed and whose name has a parameter map in the provider's document,
\* provided it has a supported type and passes the compatibility filter; no
\* entry is overwritten or dropped on a name collision.
C1_NoCollisionLoss ==
    (ret = "ok" /\ NoNameFilter) =>
        LET want == {r \in DirectRefs(sources) \cup
                            {q \in ProviderRefs(sources) : ConfigFound(sources, q)} :
                        Admitted(sources, r, config.stashCompatible)}
        IN /\ Cardinality(DOMAIN filteredProxies) = Cardinality(want)
           /\ IdsOf(filteredProxies) = want
           /\ \A k1, k2 \in DOMAIN filteredProxies :
                filteredProxies[k1].id = filteredProxies[k2].id => k1 = k2

\* The same name was declared twice in one source and once more in another,
\* and all three proxies were returned.
C1_Witness ==
    /\ ret = "ok" /\ NoNameFilter
    /\ \E k1, k2, k3 \in DOMAIN filteredProxies :
        /\ Cardinality({k1, k2, k3}) = 3
        /\ DeclAt(sources, filteredProxies[k1].id).name
            = DeclAt(sources, filteredProxies[k2].id).name
        /\ DeclAt(sources, filteredProxies[k2].id).name
            = DeclAt(sources, filteredProxies[k3].id).name
        /\ filteredProxies[k1].id[1] = filteredProxies[k2].id[1]
        /\ filteredProxies[k1].id[1] # filteredProxies[k3].id[1]

\* One visiting order of a set of keys, the same whenever it is asked for.
FixedOrder(S) == CHOOSE o \in Orders(S) : TRUE

\* The merging loop run over the keys of `prox` in the order `order`, from the
\* registry `all`, for a run in which no entry panics.
RECURSIVE MergeInOrder(_, _, _, _, _)
MergeInOrder(order, prox, all, srcs, stash) ==
    IF order = <<>> THEN all
    ELSE LET k == Head(order)
             p == prox[k]
             keep == /\ p.type \in SupportedTypes
                     /\ stash => isStashCompatible(p.type,
                                    DeclAt(srcs, p.cfgRef).params)
         IN MergeInOrder(Tail(order), prox,
                IF keep THEN (MergedName(k, DOMAIN all) :> p) @@ all ELSE all,
                srcs, stash)

\* The mapping of source i after its providers were visited in `order`.
RECURSIVE ProvidersInOrder(_, _, _, _)
ProvidersInOrder(order, i, prox, srcs) ==
    IF order = <<>> THEN prox
    ELSE LET name == Head(order)
             pv == srcs[i].providers[name]
         IN ProvidersInOrder(Tail(order), i,
                IF name # ReservedName /\ pv.ok
                THEN AddProviderProxies(i, name, pv.doc, 1, prox) ELSE prox,
                srcs)

\* The registry of the run that visits every Go map in its fixed order.
RECURSIVE FixedOrderRegistry(_, _, _, _)
FixedOrderRegistry(srcs, i, all, stash) ==
    IF i > Len(srcs) THEN all
    ELSE IF ~srcs[i].ok THEN FixedOrderRegistry(srcs, i + 1, all, stash)
    ELSE LET prox == ProvidersInOrder(FixedOrder(DOMAIN srcs[i].providers), i,
                        LoadDirect(i, srcs[i].proxies, 1, EmptyMap), srcs)
         IN FixedOrderRegistry(srcs, i + 1,
                MergeInOrder(FixedOrder(DOMAIN prox), prox, all, srcs, stash),
                stash)

\* The name each proxy of a registry has.
NamesOf(m) == [k \in DOMAIN m |-> m[k].id]

\* C2: the final name of every proxy is the same in every run over the same
\* sources and filters: a run that returns gives each proxy the name that
\* the run visiting the mappings in the fixed order gives it.
C2_SameNamesEveryRun ==
    ret = "ok" =>
        NamesOf(allProxies)
            = NamesOf(FixedOrderRegistry(sources, 1, EmptyMap, config.stashCompatible))

\* The pieces of BlockRegex that are keywords, as the claim words them:
\* split on "|", trimmed, not empty, lower-cased.
ClaimKeywords ==
    {ToLower(TrimSpace(piece)) :
        piece \in {q \in Range(Split(config.BlockRegex, "|")) : TrimSpace(q) # <<>>}}

ClaimBlocked(name) == \E kw \in ClaimKeywords : Contains(ToLower(name), kw)

\* C3: an entry of the merged registry is in the returned mapping if and only
\* if its lower-cased name contains no block keyword and its name matches the
\* allow pattern; the block wins over the allow pattern.
C3_NameFilter ==
    pc = "done" =>
        /\ DOMAIN filteredProxies \subseteq DOMAIN allProxies
        /\ \A n \in DOMAIN allProxies :
            /\ n \in DOMAIN filteredProxies
                <=> (~ClaimBlocked(n) /\ MatchString(config.FilterRegex, n))
            /\ n \in DOMAIN filteredProxies => filteredProxies[n] = allProxies[n]
            /\ ClaimBlocked(n) => n \notin DOMAIN filteredProxies

\* An entry whose name matches the allow pattern was excluded because its
\* lower-cased name contains a keyword written in upper case, while another
\* entry was returned.
C3_Witness ==
    /\ pc = "done" /\ ret = "ok"
    /\ \E n \in DOMAIN allProxies :
        /\ MatchString(config.FilterRegex, n)
        /\ ClaimBlocked(n)
        /\ ~Contains(n, TrimSpace(config.BlockRegex))
        /\ n \notin DOMAIN filteredProxies

\* C4: LoadProxies returns the NoProxiesLoaded error exactly when no entry of
\* the registry passes the name filters, and a non-empty mapping otherwise.
C4_ErrorIffEmpty ==
    pc = "done" =>
        LET left == {n \in DOMAIN allProxies :
                        ~ClaimBlocked(n) /\ MatchString(config.FilterRegex, n)}
        IN /\ ret \in {"ok", "NoProxiesLoaded"}
           /\ ret = "NoProxiesLoaded" <=> left = {}
           /\ ret = "ok" => DOMAIN filteredProxies # {}

\* The registry held entries, the name filters removed every one of them, and
\* the error was returned.
C4_Witness ==
    /\ pc = "done" /\ ret = "NoProxiesLoaded"
    /\ DOMAIN allProxies # {}
    /\ DOMAIN filteredProxies = {}

\* A step that reads a source which fails, and one that visits a provider
\* which fails.
SourceFailedStep ==
    Len(sources') = Len(sources) + 1 /\ ~sources'[Len(sources')].ok

ProviderFailedStep ==
    /\ sources' = sources
    /\ \E name \in providersLeft \ providersLeft' :
        ~sources[CurSource].providers[name].ok

\* C5: a source or a provider that fails is skipped: the step leaves the
\* registry, the current mapping and the parameter maps as they were, and the
\* load goes on; no entry of the registry comes from a failed source or
\* provider. So the registry is the one built without the failing ones.
C5_FailuresSkipped ==
    /\ [](\A k \in DOMAIN allProxies :
            /\ sources[allProxies[k].id[1]].ok
            /\ allProxies[k].id[2] # <<>> =>
                sources[allProxies[k].id[1]].providers[allProxies[k].id[2]].ok)
    /\ [][(SourceFailedStep \/ ProviderFailedStep) =>
            /\ allProxies' = allProxies
            /\ proxies' = proxies
            /\ keysLeft' = keysLeft
            /\ configs' = configs
            /\ ret' = ret
            /\ pc' = "load"]_vars

\* The first source failed, the provider of the second failed, and the direct
\* proxies of the second were returned.
C5_Witness ==
    /\ ret = "ok"
    /\ Len(sources) = 2
    /\ ~sources[1].ok
    /\ sources[2].ok
    /\ \E name \in DOMAIN sources[2].providers :
        name # ReservedName /\ ~sources[2].providers[name].ok
    /\ \E k \in DOMAIN filteredProxies : filteredProxies[k].id[1] = 2

\* C6: no input makes LoadProxies end otherwise than with a mapping or with
\* NoProxiesLoaded: the process never crashes.
C6_NeverCrashes == pc # "panic"

\* ------------------------------------------------------ testProxy's claims

\* No download or upload sub-task was started: no goroutine, no count on the
\* WaitGroup, nothing sent.
NoSubTask ==
    /\ \A s \in Stages : \A t \in 1..MaxConcurrent : tasks[s][t] = "new"
    /\ \A s \in Stages : chans[s] = <<>> /\ totals[s] = ZeroTotals
    /\ wg = 0
    /\ closed = {}

\* The Result with nothing but its three identifying fields.
ZeroResult == NewResult(TestedProxy.name, TestedProxy)

\* The probe did not succeed: it failed to dial or errored, it was not
\* answered within the client's budget, or the status was not 200.
ProbeUnsuccessful ==
    /\ probe # NoProbe
    /\ \/ probe.kind \in {"error", "status"}
       \/ TimesOut(ProbeBudget(tcfg), probe.responded)

\* C7: when the probe fails to dial, errors or is answered with another
\* status than 200, testProxy has returned, every field of the Result but
\* ProxyName, ProxyType and ProxyConfig is zero, and no download or upload
\* sub-task was started.
C7_ProbeFailureGivesZeroResult ==
    ProbeUnsuccessful =>
        /\ tpc[1] = "done"
        /\ result = ZeroResult
        /\ NoSubTask

\* The probe was answered in time with a status that is not 200.
C7_Witness ==
    /\ tpc[1] = "done"
    /\ probe.kind = "status"
    /\ ~TimesOut(ProbeBudget(tcfg), probe.responded)

\* The probe succeeded: 200, within the client's budget.
ProbeSucceeded ==
    /\ probe.kind = "ok"
    /\ ~TimesOut(ProbeBudget(tcfg), probe.responded)

\* A Result in which only Latency is set.
OnlyLatency == [ZeroResult EXCEPT !.Latency = probe.elapsed]

\* C8: in fast mode, after a successful probe, testProxy has returned a
\* Result with only Latency set, whatever MaxLatency is, and no download or
\* upload sub-task was started.
C8_FastModeOnlyLatency ==
    (tcfg.FastMode /\ ProbeSucceeded) =>
        /\ tpc[1] = "done"
        /\ result = OnlyLatency
        /\ result.Latency > 0
        /\ NoSubTask

\* Fast mode, a successful probe, and a latency above MaxLatency reported.
C8_Witness ==
    /\ tcfg.FastMode
    /\ ProbeSucceeded
    /\ tpc[1] = "done"
    /\ tcfg.MaxLatency > 0
    /\ result.Latency > tcfg.MaxLatency

\* The step in which testProxy returns from the probe.
ProbeStep == tpc = <<"probe", "start">> /\ tpc' # tpc

\* C9: with fast mode off, a successful probe whose latency is strictly above
\* MaxLatency makes testProxy return a Result with only Latency set, no
\* download or upload sub-task started; with a latency equal to MaxLatency
\* the pipeline goes on to the download stage.
C9_CeilingStopsStrictlyAbove ==
    /\ []((~tcfg.FastMode /\ ProbeSucceeded /\ probe.elapsed > tcfg.MaxLatency) =>
            /\ tpc[1] = "done"
            /\ result = OnlyLatency
            /\ NoSubTask)
    /\ [][(ProbeStep /\ ~tcfg.FastMode /\ ProbeSucceeded'
              /\ probe'.elapsed = tcfg.MaxLatency) =>
            /\ tpc' = At("download", "start")
            /\ result' = [ZeroResult EXCEPT !.Latency = tcfg.MaxLatency]]_vars

\* Fast mode off, a successful probe above a positive ceiling, and
\* testProxy returned.
C9_Witness ==
    /\ ~tcfg.FastMode
    /\ ProbeSucceeded
    /\ tcfg.MaxLatency > 0
    /\ probe.elapsed > tcfg.MaxLatency
    /\ tpc[1] = "done"
    /\ result.Latency = probe.elapsed

\* C10: the probe has the configured Timeout as its time budget: once
\* testProxy is past a probe that was answered 200 within Timeout, the
\* elapsed time is the Latency of the Result, above MaxLatency or not.
C10_ProbeHasFullTimeout ==
    (probe.kind = "ok" /\ ~TimesOut(tcfg.Timeout, probe.responded)) =>
        result.Latency = probe.elapsed

\* The sub-tasks of a stage that have returned, and those of them that
\* returned a ChunkResult.
Returned(s) == {t \in 1..MaxConcurrent : tasks[s][t] \in {"sent", "done"}}

Successes(s) == {t \in Returned(s) : returned[s][t].some}

\* The sum of the bytes (or of the durations) the sub-tasks T of a stage
\* returned.
RECURSIVE SumOver(_, _, _)
SumOver(s, T, field) ==
    IF T = {} THEN 0
    ELSE LET t == CHOOSE x \in T : TRUE
         IN (IF field = "bytes" THEN returned[s][t].bytes
             ELSE returned[s][t].duration) + SumOver(s, T \ {t}, field)

\* The three fields of the Result a stage writes.
StageFields(s) ==
    IF s = "download"
    THEN [size |-> result.DownloadSize, time |-> result.DownloadTime,
          speed |-> result.DownloadSpeed]
    ELSE [size |-> result.UploadSize, time |-> result.UploadTime,
          speed |-> result.UploadSpeed]

ZeroFields == [size |-> 0, time |-> 0, speed |-> ZeroRate]

\* The fields of stage s are the aggregate of the ChunkResults its sub-tasks
\* returned: the sum of the bytes, the sum of the durations divided by the
\* number of successes, and the quotient of the two.
FieldsAggregate(s) ==
    LET k == Cardinality(Successes(s))
        bytes == SumOver(s, Successes(s), "bytes")
        time == SumOver(s, Successes(s), "duration")
    IN IF k >= 1
       THEN /\ StageFields(s).size = bytes
            /\ StageFields(s).time = time \div k
            /\ StageFields(s).speed.den > 0
            /\ StageFields(s).speed.num * (time \div k)
                   = bytes * StageFields(s).speed.den
       ELSE StageFields(s) = ZeroFields

\* C11: after a stage in which k >= 1 sub-tasks returned a ChunkResult, the
\* size is the sum of the bytes of those k results, the time is the sum of
\* their durations divided by k, and the rate is the size divided by that
\* time; a sub-task that returned nothing adds to neither. With k = 0 the
\* three fields stay zero.
C11_StageAggregation == \A s \in Stages : s \in closed => FieldsAggregate(s)

\* A download stage of two sub-tasks, one of which returned nothing.
C11_Witness ==
    /\ "download" \in closed
    /\ tcfg.Concurrent = 2
    /\ Cardinality(Successes("download")) = 1
    /\ result.DownloadSize > 0
    /\ result.DownloadTime = 2

\* C12: when the download stage ran and DownloadSpeed is strictly below
\* MinDownloadSpeed (also when every download sub-task failed and
\* MinDownloadSpeed is positive), testProxy has returned, no upload sub-task
\* was started, the upload fields are zero and the download fields keep
\* their aggregated values.
C12_ThresholdGating ==
    ("download" \in closed
        /\ result.DownloadSpeed.num < tcfg.MinDownloadSpeed * result.DownloadSpeed.den) =>
        /\ tpc[1] = "done"
        /\ \A t \in 1..MaxConcurrent : tasks["upload"][t] = "new"
        /\ chans["upload"] = <<>>
        /\ "upload" \notin closed
        /\ result.UploadSize = 0
        /\ result.UploadTime = 0
        /\ result.UploadSpeed = ZeroRate
        /\ FieldsAggregate("download")

\* Every download sub-task failed, the threshold is positive and an upload
\* was asked for.
C12_Witness ==
    /\ "download" \in closed
    /\ Successes("download") = {}
    /\ tcfg.MinDownloadSpeed > 0
    /\ tcfg.UploadSize \div tcfg.Concurrent > 0
    /\ tpc[1] = "done"

\* Exactly Concurrent sub-tasks of stage s were started and every one of
\* them has completed.
AllJoined(s) ==
    /\ \A t \in 1..tcfg.Concurrent : tasks[s][t] = "done"
    /\ \A t \in (tcfg.Concurrent + 1)..MaxConcurrent : tasks[s][t] = "new"

\* C13: in each executed stage exactly Concurrent sub-tasks are started, and
\* the aggregation of the stage and everything after it happen only after
\* all of them have completed; none is running when testProxy returns.
C13_JoinBarrier ==
    /\ \A s \in Stages :
        (tpc = At(s, "collect") \/ s \in closed \/ totals[s] # ZeroTotals)
            => AllJoined(s)
    /\ \A s \in Stages : \A t \in 1..MaxConcurrent :
        tasks[s][t] # "new" => t <= tcfg.Concurrent
    /\ tpc[1] = "upload" =>
        \A t \in 1..MaxConcurrent : tasks["download"][t] \in {"new", "done"}
    /\ tpc[1] = "done" =>
        /\ wg = 0
        /\ \A s \in Stages : \A t \in 1..MaxConcurrent : tasks[s][t] \in {"new", "done"}

\* Both stages ran with two sub-tasks each and testProxy returned.
C13_Witness ==
    /\ tpc[1] = "done"
    /\ closed = Stages
    /\ tcfg.Concurrent = 2
    /\ \A s \in Stages : AllJoined(s)

\* The sum of the bytes (or durations) of the values buffered in a channel,
\* and the number of them that are not nil.
RECURSIVE SumSeq(_, _)
SumSeq(q, field) ==
    IF q = <<>> THEN 0
    ELSE (CASE field = "bytes" -> Head(q).bytes
            [] field = "duration" -> Head(q).duration
            [] OTHER -> IF Head(q).some THEN 1 ELSE 0) + SumSeq(Tail(q), field)

\* C14: under every interleaving each ChunkResult a sub-task produced is
\* either still in its stage's channel or in its stage's accumulator, once;
\* when the stage is over all of them are in the accumulator; and the
\* accumulators are written only by a turn of the collecting loop of their
\* own stage.
C14_ExactlyOnce ==
    /\ [](\A s \in Stages :
            /\ totals[s].bytes + SumSeq(chans[s], "bytes")
                   = SumOver(s, Successes(s), "bytes")
            /\ totals[s].time + SumSeq(chans[s], "duration")
                   = SumOver(s, Successes(s), "duration")
            /\ totals[s].count + SumSeq(chans[s], "count")
                   = Cardinality(Successes(s))
            /\ s \in closed => chans[s] = <<>>)
    /\ [][totals' # totals =>
            \E s \in Stages :
                /\ tpc = At(s, "collect")
                /\ tasks' = tasks
                /\ returned' = returned
                /\ \A o \in Stages \ {s} : totals'[o] = totals[o]]_vars

\* Both stages ran, and two ChunkResults of the download stage and one of
\* the upload stage were accumulated.
C14_Witness ==
    /\ closed = Stages
    /\ totals["download"].count = 2
    /\ totals["upload"].count = 1
    /\ totals["upload"].bytes > 0

\* C15: a sub-task whose chunk did not complete, in particular one whose
\* timeout expired while the body was being read, returns nothing: every
\* ChunkResult a sub-task returned holds the whole chunk.
C15_NoPartialChunk ==
    \A s \in Stages : \A t \in Successes(s) :
        returned[s][t].bytes = ChunkSize(tcfg, s)

\* The integer quotient total/Concurrent of a stage.
Quotient(s) ==
    (IF s = "download" THEN tcfg.DownloadSize ELSE tcfg.UploadSize)
        \div tcfg.Concurrent

\* Stage s was not executed: no sub-task, no channel traffic, zero fields.
StageUntouched(s) ==
    /\ \A t \in 1..MaxConcurrent : tasks[s][t] = "new"
    /\ chans[s] = <<>>
    /\ totals[s] = ZeroTotals
    /\ s \notin closed
    /\ StageFields(s) = ZeroFields

\* C16: each sub-task of a stage asks for the integer quotient
\* total/Concurrent; when the quotient is not positive the stage is skipped:
\* no sub-task, zero fields, and after a skipped download stage the pipeline
\* goes on to the upload stage whatever MinDownloadSpeed is.
C16_ChunkSplitting ==
    /\ [](\A s \in Stages :
            /\ Quotient(s) <= 0 =>
                /\ StageUntouched(s)
                /\ tpc[1] = s => tpc = At(s, "start")
            /\ \A t \in Successes(s) : returned[s][t].bytes <= Quotient(s)
            /\ \A t \in 1..MaxConcurrent : tasks[s][t] # "new" => Quotient(s) > 0)
    /\ [][(tpc = At("download", "start") /\ Quotient("download") <= 0 /\ tpc' # tpc) =>
            /\ tpc' = At("upload", "start")
            /\ result' = result]_vars

\* A total smaller than Concurrent, a positive MinDownloadSpeed, and an
\* upload sub-task running after the skipped download stage.
C16_Witness ==
    /\ tcfg.DownloadSize > 0
    /\ Quotient("download") = 0
    /\ tcfg.MinDownloadSpeed > 0
    /\ StageUntouched("download")
    /\ \E t \in 1..MaxConcurrent : tasks["upload"][t] = "running"

\* A configuration without its MinUploadSpeed.
Erased(cfg) == [cfg EXCEPT !.MinUploadSpeed = 0]

\* The fields a stage gives the Result, from what its sub-tasks returned.
FieldsOf(s) ==
    LET k == Cardinality(Successes(s))
        bytes == SumOver(s, Successes(s), "bytes")
        time == SumOver(s, Successes(s), "duration")
    IN IF k >= 1
       THEN [size |-> bytes, time |-> time \div k, speed |-> Rate(bytes, time \div k)]
       ELSE ZeroFields

\* testProxy as a function of a configuration and of what the network did:
\* the stages it runs and the Result it returns.
StagesOf(cfg) ==
    IF probe.kind # "ok" \/ TimesOut(cfg.MaxLatency, probe.responded) THEN {}
    ELSE IF cfg.FastMode \/ probe.elapsed > cfg.MaxLatency THEN {}
    ELSE LET down == cfg.DownloadSize \div cfg.Concurrent > 0
             up == cfg.UploadSize \div cfg.Concurrent > 0
             gated == down /\ FieldsOf("download").speed.num
                                < cfg.MinDownloadSpeed * FieldsOf("download").speed.den
         IN (IF down THEN {"download"} ELSE {})
                \cup (IF up /\ ~gated THEN {"upload"} ELSE {})

ResultOf(cfg) ==
    LET down == IF "download" \in StagesOf(cfg) THEN FieldsOf("download") ELSE ZeroFields
        up == IF "upload" \in StagesOf(cfg) THEN FieldsOf("upload") ELSE ZeroFields
    IN [ZeroResult EXCEPT
            !.Latency = IF probe.kind # "ok" \/ TimesOut(cfg.MaxLatency, probe.responded)
                        THEN 0 ELSE probe.elapsed,
            !.DownloadSize = down.size, !.DownloadTime = down.time,
            !.DownloadSpeed = down.speed,
            !.UploadSize = up.size, !.UploadTime = up.time, !.UploadSpeed = up.speed]

\* C17: the stages testProxy ran and the Result it returns are those of the
\* configuration without its MinUploadSpeed, given what the network did: so
\* two configurations that differ only in MinUploadSpeed give the same
\* Result, and nothing is gated after the upload stage.
C17_MinUploadSpeedNotRead ==
    tpc[1] = "done" =>
        /\ closed = StagesOf(Erased(tcfg))
        /\ result = ResultOf(Erased(tcfg))

\* An upload measured below a positive MinUploadSpeed, with no download
\* threshold, and returned in full.
C17_Witness ==
    /\ tpc[1] = "done"
    /\ "upload" \in closed
    /\ tcfg.MinDownloadSpeed = 0
    /\ tcfg.MinUploadSpeed > 0
    /\ result.UploadSize > 0
    /\ result.UploadSpeed.num < tcfg.MinUploadSpeed * result.UploadSpeed.den

\* ------------------------------------------------ the entry filter's claims

\* The loop body is over for the entry, without a crash.
EntryDecided == epc \in {"kept", "dropped"}

\* The parameters some kind's compatibility check reads.
CheckedKeys == {"cipher", "obfs", "protocol", "obfs-opts.mode", "network", "flow"}

\* C18: with the compatibility filter on, an entry of any supported kind,
\* Mieru and AnyTLS included, that carries none of the checked parameters is
\* kept.
C18_AbsentAlwaysAccepted ==
    (/\ EntryDecided
     /\ declared.stash
     /\ declared.type \in SupportedTypes
     /\ DOMAIN declared.cfg \cap CheckedKeys = {}) => epc = "kept"

\* The checked parameters of each kind that has some, with their allow-lists.
CheckedParams(type) ==
    CASE type = "Shadowsocks" ->
            {<<"cipher",
               {"aes-128-gcm", "aes-192-gcm", "aes-256-gcm", "aes-128-cfb",
                "aes-192-cfb", "aes-256-cfb", "aes-128-ctr", "aes-192-ctr",
                "aes-256-ctr", "rc4-md5", "chacha20", "chacha20-ietf", "xchacha20",
                "chacha20-ietf-poly1305", "xchacha20-ietf-poly1305",
                "2022-blake3-aes-128-gcm", "2022-blake3-aes-256-gcm"}>>}
      [] type = "ShadowsocksR" ->
            {<<"obfs", {"plain", "http_simple", "http_post", "random_head",
                        "tls1.2_ticket_auth", "tls1.2_ticket_fastauth"}>>,
             <<"protocol", {"origin", "auth_sha1_v4", "auth_aes128_md5",
                            "auth_aes128_sha1", "auth_chain_a", "auth_chain_b"}>>}
      [] type = "Snell" -> {<<"obfs-opts.mode", {"http", "tls"}>>}
      [] type = "Vmess" ->
            {<<"cipher", {"auto", "aes-128-gcm", "chacha20-poly1305", "none"}>>,
             <<"network", {"ws", "h2", "http", "grpc"}>>}
      [] type = "Vless" ->
            {<<"flow", {"xtls-rprx-origin", "xtls-rprx-direct", "xtls-rprx-splice",
                        "xtls-rprx-vision"}>>}
      [] type = "Trojan" -> {<<"network", {"ws", "grpc"}>>}
      [] OTHER -> {}

KindsWithCheckedParams ==
    {"Shadowsocks", "ShadowsocksR", "Snell", "Vmess", "Vless", "Trojan"}

\* C19: for a kind with checked parameters the entry is kept by the
\* compatibility filter exactly when every checked parameter of its kind
\* that is present has a value of the kind's allow-list, whatever its other
\* parameters are.
C19_AllowLists ==
    (/\ EntryDecided
     /\ declared.stash
     /\ declared.type \in KindsWithCheckedParams) =>
        (epc = "kept" <=>
            \A c \in CheckedParams(declared.type) :
                c[1] \in DOMAIN declared.cfg =>
                    \E x \in c[2] : declared.cfg[c[1]] = StrVal(x))

\* A Shadowsocks entry with cipher aes-256-gcm is kept though its network
\* is in no allow-list.
C19_Witness ==
    /\ epc = "kept"
    /\ declared.stash
    /\ declared.type = "Shadowsocks"
    /\ DOMAIN declared.cfg = {"cipher", "network", "udp"}
    /\ declared.cfg["cipher"] = StrVal("aes-256-gcm")
    /\ declared.cfg["network"] = StrVal("tcp")

\* The IPv4-mapped IPv6 literals of the model and their plain IPv4 text.
MappedLiterals == {"::ffff:192.0.2.1", "::ffff:c000:201"}

PlainIPv4(server) == "192.0.2.1"

\* C20: once the server of an entry is normalised, an IPv4-mapped IPv6
\* literal has become its plain IPv4 text, any other text (no IP literal, an
\* IPv6 literal that is not IPv4-mapped, a plain IPv4 literal) is unchanged,
\* and normalising the result again changes nothing.
C20_ServerNormalisation ==
    (/\ epc \in {"stash", "kept", "dropped"}
     /\ declared.type \in SupportedTypes
     /\ "server" \in DOMAIN declared.cfg) =>
        LET before == declared.cfg["server"].v
            after == entry.cfg["server"]
        IN /\ after.t = "string"
           /\ before \in MappedLiterals => after.v = PlainIPv4(before)
           /\ before \notin MappedLiterals => after.v = before
           /\ convertMappedIPv6ToIPv4(after.v) = after.v
           /\ \A k \in DOMAIN declared.cfg \ {"server"} : entry.cfg[k] = declared.cfg[k]

\* An IPv4-mapped literal in hexadecimal notation was replaced.
C20_Witness ==
    /\ epc = "kept"
    /\ "server" \in DOMAIN declared.cfg
    /\ declared.cfg["server"] = StrVal("::ffff:c000:201")
    /\ entry.cfg["server"] = StrVal("192.0.2.1")


\* ------------------------------------------------- TestProxies and its callback

\* The variables of the other operations, which TestProxies leaves alone.
outsideRun == <<loadVars, testVars, entryVars, fmtVars, statVars, saveVars, webVars>>

IdleOutsideRun == LoadIdle /\ TestIdle /\ EntryIdle /\ FormatIdle /\ StatsIdle /\ SaveIdle /\ WebIdle

\* The latencies of the model's Results, in ticks; 0 is a failed probe.
RunLatencies == {0, 1}

InitRun ==
    /\ registry \in SUBSET RunNames
    /\ unvisited = registry
    /\ rpc = "range"
    /\ started = <<>>
    /\ received = <<>>
    /\ finished = 0
    /\ results = <<>>
    /\ IdleOutsideRun

\* Line 406: the range loop produces a key it has not produced yet, in an
\* order Go does not fix, and line 407 calls testProxy with it.
RangeNext ==
    /\ rpc = "range"
    /\ \E name \in unvisited :
        /\ unvisited' = unvisited \ {name}
        /\ started' = Append(started, name)
    /\ rpc' = "testProxy"
    /\ UNCHANGED <<registry, received, finished, results>>
    /\ UNCHANGED outsideRun

\* The Result of a call of testProxy names the first key given to TestProxies.
TestProxyReturnsFirstName ==
    /\ rpc = "testProxy"
    /\ \E latency \in RunLatencies :
        received' = Append(received, [ProxyName |-> started[1], Latency |-> latency])
    /\ rpc' = "tester"
    /\ UNCHANGED <<registry, unvisited, started, finished, results>>
    /\ UNCHANGED outsideRun

\* Line 407: testProxy returns a Result whose ProxyName is the name it was
\* called with (line 469), and the callback is called with it.
TestProxyReturns ==
    /\ rpc = "testProxy"
    /\ \E latency \in RunLatencies :
        received' = Append(received, [ProxyName |-> started[Len(started)],
                                      Latency |-> latency])
    /\ rpc' = "tester"
    /\ UNCHANGED <<registry, unvisited, started, finished, results>>
    /\ UNCHANGED outsideRun

\* main.go lines 75-81: the callback appends the Result and returns; the
\* loop goes on to its next iteration.
TesterReturns ==
    /\ rpc = "tester"
    /\ results' = Append(results, received[Len(received)])
    /\ finished' = finished + 1
    /\ rpc' = "range"
    /\ UNCHANGED <<registry, unvisited, started, received>>
    /\ UNCHANGED outsideRun

\* Line 409: the range loop is over.
RangeEnd ==
    /\ rpc = "range"
    /\ unvisited = {}
    /\ rpc' = "end"
    /\ UNCHANGED <<registry, unvisited, started, received, finished, results>>
    /\ UNCHANGED outsideRun

NextRun ==
    \/ RangeNext
    \/ TestProxyReturns
    \/ TesterReturns
    \/ RangeEnd

\* One call of TestProxies with main's callback, over every registry.
SpecRun == InitRun /\ [][NextRun]_vars

\* C21: TestProxies calls the engine and then the callback once for each
\* entry of the registry, with a Result named after the entry's key, and one
\* entry at a time: an entry's test starts only after the callback of the
\* entry before it has returned.
C21_OncePerEntryInSequence ==
    /\ Len(started) - finished \in {0, 1}
    /\ Len(received) - finished \in {0, 1}
    /\ Len(received) <= Len(started)
    /\ \A i \in 1..Len(received) : received[i].ProxyName = started[i]
    /\ \A i, j \in 1..Len(started) : started[i] = started[j] => i = j
    /\ Range(started) \subseteq registry
    /\ rpc = "end" =>
        /\ Range(started) = registry
        /\ Len(received) = Cardinality(registry)
        /\ finished = Cardinality(registry)

\* TestProxies went through a registry of three entries.
C21_Witness ==
    /\ rpc = "end"
    /\ Cardinality(registry) = 3
    /\ Len(results) = 3

\* ------------------------------------------------------------- formatSpeed

outsideFormat == <<loadVars, testVars, entryVars, runVars, statVars, saveVars, webVars>>

IdleOutsideFormat == LoadIdle /\ TestIdle /\ EntryIdle /\ RunIdle /\ StatsIdle /\ SaveIdle /\ WebIdle

\* 1024 to the power k.
RECURSIVE Pow1024(_)
Pow1024(k) == IF k = 0 THEN 1 ELSE 1024 * Pow1024(k - 1)

\* n >= 1024^k, for a whole number n.
RECURSIVE AtLeastPow(_, _)
AtLeastPow(n, k) == IF k = 0 THEN n >= 1 ELSE AtLeastPow(n \div 1024, k - 1)

\* Line 461: speed >= 1024, for the rate r.n * 1024^r.x.
AtLeast1024(r) ==
    IF r.x >= 1 THEN r.n >= 1 ELSE AtLeastPow(r.n, 1 - r.x)

\* Line 462: speed /= 1024, which is exact in binary floating point.
Div1024(r) == [r EXCEPT !.x = r.x - 1]

\* The number of hundredths %.2f prints for the rate r: the nearest one, and
\* the even one of two that are equally near.
Hundredths(r) ==
    IF r.n = 0 THEN 0
    ELSE IF r.x >= 0 THEN r.n * 100 * Pow1024(r.x)
    ELSE LET d == Pow1024(-r.x)
             q == (r.n * 100) \div d
             m == (r.n * 100) % d
         IN  IF 2 * m > d THEN q + 1
             ELSE IF 2 * m = d THEN q + (q % 2)
             ELSE q

\* Line 458: units.
units ==
    << <<"B", "/", "s">>, <<"K", "B", "/", "s">>, <<"M", "B", "/", "s">>,
       <<"G", "B", "/", "s">>, <<"T", "B", "/", "s">> >>

\* Line 465: fmt.Sprintf("%.2f%s", speed, units[unit]); units is indexed from
\* 0 in the code and from 1 here.
Sprintf2f(r, u) ==
    LET h == Hundredths(r)
    IN  Itoa(h \div 100) \o <<".", Digit((h % 100) \div 10), Digit(h % 10)>> \o units[u + 1]

\* The rates formatSpeed is called with: whole numbers of bytes per second,
\* multiples of 1/1024 of one, and rates of every unit.
FormatInputs ==
    {[n |-> n, x |-> x] : n \in {0, 1, 512, 1023, 1024, 1536, 2047}, x \in (-1)..5}
        \cup {[n |-> n, x |-> x] : n \in {1048572, 1048575, 1048576}, x \in (-1)..4}

InitFormat ==
    /\ bytesPerSecond \in FormatInputs
    /\ speed = bytesPerSecond
    /\ unit = 0
    /\ fpc = "loop"
    /\ printed = <<>>
    /\ IdleOutsideFormat

\* Lines 461-464: one iteration of the loop.
Divide ==
    /\ fpc = "loop"
    /\ AtLeast1024(speed) /\ unit < Len(units) - 1
    /\ speed' = Div1024(speed)
    /\ unit' = unit + 1
    /\ UNCHANGED <<bytesPerSecond, fpc, printed>>
    /\ UNCHANGED outsideFormat

\* Line 465: the loop is over and the text is made.
Sprintf ==
    /\ fpc = "loop"
    /\ ~(AtLeast1024(speed) /\ unit < Len(units) - 1)
    /\ printed' = Sprintf2f(speed, unit)
    /\ fpc' = "printed"
    /\ UNCHANGED <<bytesPerSecond, speed, unit>>
    /\ UNCHANGED outsideFormat

NextFormat == Divide \/ Sprintf

\* One call of formatSpeed, on every rate of FormatInputs.
SpecFormat == InitFormat /\ [][NextFormat]_vars

\* The number a text of decimal digits denotes.
DigitValue(c) == CHOOSE d \in 0..9 : Digit(d) = c

RECURSIVE Atoi(_)
Atoi(s) ==
    IF s = <<>> THEN 0
    ELSE Atoi(SubSeq(s, 1, Len(s) - 1)) * 10 + DigitValue(s[Len(s)])

\* The mantissa a printed rate shows, in hundredths: the digits before the
\* point and the two digits after it.
PrintedHundredths(text) ==
    LET whole == Split(text, ".")[1]
    IN  Atoi(whole) * 100 + Atoi(SubSeq(text, Len(whole) + 2, Len(whole) + 3))

\* The unit a printed rate shows: what follows the two digits after the point.
PrintedUnit(text) ==
    LET whole == Split(text, ".")[1]
    IN  SubSeq(text, Len(whole) + 4, Len(text))

\* The rate divided j times by 1024.
Scaled(r, j) == [r EXCEPT !.x = r.x - j]

\* C22: formatSpeed divides the rate by 1024 while it is at least 1024 and a
\* larger unit exists: the unit printed is the one whose index is the number
\* of divisions, which is never above 4 (TB/s); the mantissa printed is below
\* 1024 for every unit but TB/s; 1536 is printed "1.50KB/s" and 0 "0.00B/s".
C22_FormatSpeed ==
    fpc = "printed" =>
        /\ unit \in 0..4
        /\ \A j \in 0..(unit - 1) : AtLeast1024(Scaled(bytesPerSecond, j))
        /\ unit < 4 => ~AtLeast1024(Scaled(bytesPerSecond, unit))
        /\ PrintedUnit(printed) = units[unit + 1]
        /\ unit < 4 => PrintedHundredths(printed) < 1024 * 100
        /\ bytesPerSecond = [n |-> 1536, x |-> 0] =>
                printed = <<"1", ".", "5", "0", "K", "B", "/", "s">>
        /\ bytesPerSecond = [n |-> 0, x |-> 0] =>
                printed = <<"0", ".", "0", "0", "B", "/", "s">>

\* ---------------------------------------------------- calculateLatencyStats

outsideStats == <<loadVars, testVars, entryVars, runVars, fmtVars, saveVars, webVars>>

IdleOutsideStats == LoadIdle /\ TestIdle /\ EntryIdle /\ RunIdle /\ FormatIdle /\ SaveIdle /\ WebIdle

\* The most samples a call is given.
MaxSamples == 3

\* Line 690: the number of attempts the packet loss is taken over.
Attempts == 6

\* The latencies of the samples, in Duration units.
SampleLatencies == {1, 2, 7}

\* Line 690: float64(failedPings) / 6.0 * 100, as a fraction.
packetLoss(failed) == Rate(failed * 100, Attempts)

RECURSIVE SumOfSeq(_)
SumOfSeq(s) == IF s = <<>> THEN 0 ELSE Head(s) + SumOfSeq(Tail(s))

\* Lines 698-702: total / time.Duration(len(latencies)), a division of whole
\* numbers.
avgLatency(ls) == SumOfSeq(ls) \div Len(ls)

\* Lines 705-710: the sum of the squared differences from avgLatency; it is
\* divided by the number of samples as a float64.
SquaredDiffs(ls, avg) == SumOfSeq([i \in 1..Len(ls) |-> (ls[i] - avg) * (ls[i] - avg)])

\* A jitter that is the variance, its square root not taken.
jitterWithoutRoot(ls, avg) == SquaredDiffs(ls, avg) \div Len(ls)

\* Lines 705-711: time.Duration(math.Sqrt(variance)), the square root of
\* SquaredDiffs / len with its fraction cut off.
jitter(ls, avg) ==
    LET s == SquaredDiffs(ls, avg)
    IN  CHOOSE j \in 0..s : j * j * Len(ls) <= s /\ (j + 1) * (j + 1) * Len(ls) > s

InitStats ==
    /\ latencies \in SeqsUpTo(SampleLatencies, MaxSamples)
    /\ failedPings \in 0..Attempts
    /\ stats = [avgLatency |-> 0, jitter |-> 0, packetLoss |-> packetLoss(failedPings)]
    /\ spc = "called"
    /\ IdleOutsideStats

\* Lines 693-695: no sample, the result has the packet loss only.
StatsWithoutSample ==
    /\ spc = "called"
    /\ Len(latencies) = 0
    /\ spc' = "returned"
    /\ UNCHANGED <<latencies, failedPings, stats>>
    /\ UNCHANGED outsideStats

\* Lines 697-713.
StatsOfSamples ==
    /\ spc = "called"
    /\ Len(latencies) # 0
    /\ LET avg == avgLatency(latencies)
       IN  stats' = [stats EXCEPT !.avgLatency = avg,
                                  !.jitter = jitter(latencies, avg)]
    /\ spc' = "returned"
    /\ UNCHANGED <<latencies, failedPings>>
    /\ UNCHANGED outsideStats

NextStats == StatsWithoutSample \/ StatsOfSamples

\* One call of calculateLatencyStats.
SpecStats == InitStats /\ [][NextStats]_vars

\* The sum over the samples of (n * sample - total)^2, which is n^3 times the
\* population variance of the samples.
ScaledDeviations(ls) ==
    LET n == Len(ls)
        total == SumOfSeq(ls)
    IN  SumOfSeq([i \in 1..n |-> (n * ls[i] - total) * (n * ls[i] - total)])

\* C23: the packet loss is failed / 6 * 100; the average latency is the
\* arithmetic mean of the samples and the jitter their population standard
\* deviation, both to the whole Duration unit (the mean with its fraction cut
\* off, the jitter less than one unit from the deviation); with no sample
\* both are zero and the packet loss is still computed; with one sample the
\* jitter is zero.
C23_LatencyStats ==
    spc = "returned" =>
        LET n == Len(latencies)
            total == SumOfSeq(latencies)
            cube == n * n * n
        IN  /\ stats.packetLoss.num * Attempts = failedPings * 100 * stats.packetLoss.den
            /\ n = 0 => stats.avgLatency = 0 /\ stats.jitter = 0
            /\ n = 1 => stats.avgLatency = latencies[1] /\ stats.jitter = 0
            /\ n > 0 =>
                /\ stats.avgLatency * n <= total
                /\ total < (stats.avgLatency + 1) * n
                /\ ScaledDeviations(latencies) < (stats.jitter + 1) * (stats.jitter + 1) * cube
                /\ stats.jitter > 0 =>
                    (stats.jitter - 1) * (stats.jitter - 1) * cube < ScaledDeviations(latencies)

\* Statistics of three samples that differ, with failed attempts.
C23_Witness ==
    /\ spc = "returned"
    /\ latencies = <<1, 7, 2>>
    /\ failedPings = 3
    /\ stats.jitter = 2
    /\ stats.avgLatency = 3

\* ----------------------------------------- the Result as a pipeline prefix

\* C24: every Result of testProxy is filled as a prefix of the pipeline: an
\* upload field that is not zero means fast mode is off, Latency is not zero
\* and at most MaxLatency, and the download stage was skipped (chunk size not
\* positive) or gave a DownloadSpeed of at least MinDownloadSpeed; a download
\* field that is not zero means fast mode is off and Latency is not zero and
\* at most MaxLatency; Jitter and PacketLoss are zero.
C24_ResultIsPipelinePrefix ==
    /\ StageFields("upload") # ZeroFields =>
        /\ ~tcfg.FastMode
        /\ result.Latency # 0
        /\ result.Latency <= tcfg.MaxLatency
        /\ \/ Quotient("download") <= 0
           \/ result.DownloadSpeed.num >= tcfg.MinDownloadSpeed * result.DownloadSpeed.den
    /\ StageFields("download") # ZeroFields =>
        /\ ~tcfg.FastMode
        /\ result.Latency # 0
        /\ result.Latency <= tcfg.MaxLatency
    /\ result.Jitter = 0
    /\ result.PacketLoss = 0

\* A Result with download and upload measurements, under a positive minimum.
C24_Witness ==
    /\ tpc = <<"done", "end">>
    /\ result.UploadSize > 0
    /\ result.DownloadSize > 0
    /\ tcfg.MinDownloadSpeed > 0

\* ------------------------------------------------------------- termination

\* A sub-task of stage s that has its result can send it at once.
SendNeverWaits(s) ==
    \A t \in 1..MaxConcurrent : tasks[s][t] = "running" => Len(chans[s]) < tcfg.Concurrent

\* The collecting loop of stage s has received the Concurrent values the
\* sub-tasks sent, and nothing is left in the channel.
AllReceived(s) ==
    /\ totals[s].count <= tcfg.Concurrent
    /\ chans[s] = <<>>
    /\ Cardinality(Returned(s)) = tcfg.Concurrent

\* C25: testProxy terminates and does not deadlock on a result channel: when
\* every request returns, a sub-task's send never waits for a receiver, the
\* wait for the sub-tasks ends, the collecting loop receives exactly
\* Concurrent values, and testProxy returns a Result in the end.
C25_TerminatesWithoutDeadlock ==
    /\ [](\A s \in Stages : SendNeverWaits(s))
    /\ [](\A s \in Stages : s \in closed => AllReceived(s))
    /\ [](\A s \in Stages : tpc = At(s, "wait") => <>(tpc = At(s, "collect")))
    /\ <>(tpc[1] = "done")

\* testProxy returned after both stages ran with two sub-tasks each.
C25_Witness ==
    /\ tpc = <<"done", "end">>
    /\ closed = {"download", "upload"}
    /\ tcfg.Concurrent = 2

\* ----------------------------------------------------- New's normalisation

\* testProxy is in stage s and has made the stage's channel.
ChannelMade(s) == tpc[1] = s /\ tpc[2] # "start"

\* C26: New leaves every SpeedTester with Concurrent >= 1 (a value <= 0
\* becomes 1) and transfer sizes that are not negative (a negative
\* DownloadSize becomes 100 MiB, a negative UploadSize 10 MiB, zero is kept
\* and disables the stage); so the chunk-size division of testProxy has a
\* divisor that is not zero and a result channel is made with a positive
\* capacity.
C26_NewNormalises ==
    /\ tcfg.Concurrent = (IF rawcfg.Concurrent <= 0 THEN 1 ELSE rawcfg.Concurrent)
    /\ tcfg.DownloadSize =
         (IF rawcfg.DownloadSize < 0 THEN 100 * 1024 * 1024 ELSE rawcfg.DownloadSize)
    /\ tcfg.UploadSize =
         (IF rawcfg.UploadSize < 0 THEN 10 * 1024 * 1024 ELSE rawcfg.UploadSize)
    /\ \A f \in {"FastMode", "MaxLatency", "Timeout", "MinDownloadSpeed", "MinUploadSpeed"} :
         tcfg[f] = rawcfg[f]
    /\ tcfg.Concurrent >= 1 /\ tcfg.DownloadSize >= 0 /\ tcfg.UploadSize >= 0
    /\ rawcfg.DownloadSize = 0 => StageUntouched("download")
    /\ rawcfg.UploadSize = 0 => StageUntouched("upload")
    /\ \A s \in Stages : ChannelMade(s) => Capacity(tcfg) >= 1

\* A test that went through both stages although the caller asked for no
\* sub-task and gave negative sizes.
C26_Witness ==
    /\ rawcfg.Concurrent = 0
    /\ rawcfg.DownloadSize < 0
    /\ rawcfg.UploadSize < 0
    /\ tpc = <<"done", "end">>
    /\ closed = {"download", "upload"}

\* ------------------------------------------- the filters come before the merge

\* The entry p is excluded by the protocol-support filter or, when it is on,
\* by the compatibility filter, which reads the parameter maps cfgs.
Excluded(p, cfgs) ==
    \/ p.type \notin SupportedTypes
    \/ config.stashCompatible /\ ~isStashCompatible(p.type, cfgs[p.cfgRef])

\* The registry holds no entry that a filter excludes.
RegistryHoldsNoExcluded ==
    \A n \in DOMAIN allProxies : ~Excluded(allProxies[n], configs)

\* One step of LoadProxies: the registry changes only when the merging loop
\* visits an entry; an excluded entry leaves it as it is; any other entry gets
\* one new name, which differs from its key in the source only when that key
\* is held by an entry of the registry.
MergeStepAfterFilters ==
    /\ allProxies' # allProxies => \E k \in keysLeft : keysLeft' = keysLeft \ {k}
    /\ \A k \in keysLeft :
        (Visiting(k) /\ keysLeft' = keysLeft \ {k}) =>
            IF Excluded(proxies[k], configs')
            THEN allProxies' = allProxies
            ELSE \E n \in DOMAIN allProxies' \ DOMAIN allProxies :
                    /\ allProxies' = (n :> proxies[k]) @@ allProxies
                    /\ n # k => k \in DOMAIN allProxies

\* C27: the protocol-support filter and the compatibility filter are applied
\* to a source's entries before they are merged into the global registry: an
\* excluded entry never holds a name of the registry, so it never makes an
\* entry of the same or a later source get a cross-source duplicate suffix;
\* only the de-duplication inside a source comes before the filters.
C27_FiltersBeforeMerge ==
    /\ []RegistryHoldsNoExcluded
    /\ [][MergeStepAfterFilters]_vars

\* The second source's "a" keeps its name although the first source declared
\* an "a" of a kind that is not supported.
C27_Witness ==
    /\ Len(sources) = 2
    /\ sources[1].ok
    /\ \E j \in DOMAIN sources[1].proxies :
        /\ sources[1].proxies[j].name = <<"a">>
        /\ ParseOK(sources[1].proxies[j])
        /\ sources[1].proxies[j].type \notin SupportedTypes
    /\ <<"a">> \in DOMAIN allProxies
    /\ allProxies[<<"a">>].id[1] = 2

\* ------------------------------------------------- one parameter map per entry

\* C28: no two entries of the registry LoadProxies returns share a parameter
\* map: each entry carries the map of its own declaration, also provider
\* proxies of the same name in one provider document, so that writing the
\* name of one result's ProxyConfig changes no other entry and no two tasks
\* write the same map.
C28_NoSharedParameterMap ==
    ret = "ok" =>
        /\ \A k1, k2 \in DOMAIN filteredProxies :
            k1 # k2 => filteredProxies[k1].cfgRef # filteredProxies[k2].cfgRef
        /\ \A k \in DOMAIN filteredProxies : filteredProxies[k].cfgRef = filteredProxies[k].id

\* ------------------------------------------------------------- saveConfig

outsideSave == <<loadVars, testVars, entryVars, runVars, fmtVars, statVars, webVars>>

IdleOutsideSave == LoadIdle /\ EntryIdle /\ RunIdle /\ FormatIdle /\ StatsIdle /\ WebIdle

\* main.go lines 239-252: the result is not skipped by saveConfig's loop. The
\* flags are the values main gave to New: the minimum speeds are the flags
\* times 1024*1024, as in main.go lines 64-65.
Survives(r, flags) ==
    /\ ~(flags.MaxLatency > 0 /\ r.Latency > flags.MaxLatency)
    /\ ~(r.Latency = 0)
    /\ ~flags.FastMode =>
        /\ ~(flags.DownloadSize > 0 /\ flags.MinDownloadSpeed > 0
                /\ RateBelow(r.DownloadSpeed, flags.MinDownloadSpeed))
        /\ ~(flags.UploadSize > 0 /\ flags.MinUploadSpeed > 0
                /\ RateBelow(r.UploadSpeed, flags.MinUploadSpeed))

\* main with an output path and a registry of one entry: the flags, the test
\* of the entry, and then saveConfig on its Result.
InitSave ==
    /\ InitTest
    /\ renameNodes \in BOOLEAN
    /\ svpc = "wait"
    /\ output = <<>>
    /\ IdleOutsideSave

\* main.go lines 238-252 and 276-279: the result is skipped, no proxy is
\* left, and saveConfig returns without writing a file.
SaveNothing ==
    /\ tpc[1] = "done"
    /\ svpc = "wait"
    /\ ~Survives(result, rawcfg)
    /\ svpc' = "nofile"
    /\ UNCHANGED <<renameNodes, output>>
    /\ UNCHANGED outsideSave

\* main.go lines 253-285: the result's parameter map, renamed when -rename is
\* set and the server's location is found, is written to the output file.
SaveOutput ==
    /\ tpc[1] = "done"
    /\ svpc = "wait"
    /\ Survives(result, rawcfg)
    /\ \E located \in BOOLEAN :
        output' = <<[cfgRef |-> result.ProxyConfig, renamed |-> renameNodes /\ located]>>
    /\ svpc' = "written"
    /\ UNCHANGED renameNodes
    /\ UNCHANGED outsideSave

NextSave ==
    \/ NextTest
    \/ SaveNothing
    \/ SaveOutput

SpecSave == InitSave /\ [][NextSave]_vars

\* The result's parameter map is in the output file.
Exported ==
    svpc = "written" /\ \E i \in DOMAIN output : output[i].cfgRef = result.ProxyConfig

\* testProxy returned before the end of its pipeline: the probe failed, the
\* latency was above the ceiling, or the download rate was below the minimum.
EndedEarly == tpc \in {<<"done", "probe">>, <<"done", "slow">>, <<"done", "download">>}

\* C29: saveConfig exports only surviving results: a result's parameter map
\* is written if and only if its Latency is not zero, is at most max-latency
\* when max-latency > 0, and, fast mode being off, its DownloadSpeed and its
\* UploadSpeed are at least their minimum (where the size and the minimum are
\* positive); hence no result that testProxy ended early is exported; and
\* when nothing survives no output file is written.
C29_ExportOnlySurvivors ==
    svpc \in {"written", "nofile"} =>
        LET survives ==
                /\ result.Latency # 0
                /\ rawcfg.MaxLatency > 0 => result.Latency <= rawcfg.MaxLatency
                /\ ~rawcfg.FastMode =>
                    /\ (rawcfg.DownloadSize > 0 /\ rawcfg.MinDownloadSpeed > 0) =>
                        result.DownloadSpeed.num >=
                            rawcfg.MinDownloadSpeed * result.DownloadSpeed.den
                    /\ (rawcfg.UploadSize > 0 /\ rawcfg.MinUploadSpeed > 0) =>
                        result.UploadSpeed.num >=
                            rawcfg.MinUploadSpeed * result.UploadSpeed.den
        IN  /\ Exported <=> survives
            /\ EndedEarly => ~Exported
            /\ ~survives => svpc = "nofile" /\ output = <<>>

\* ----------------------------------------------- the web server's /speedtest

outsideWeb == <<loadVars, testVars, entryVars, runVars, fmtVars, statVars, saveVars>>

IdleOutsideWeb ==
    LoadIdle /\ TestIdle /\ EntryIdle /\ RunIdle /\ FormatIdle /\ StatsIdle /\ SaveIdle

\* The values of AUTH_KEY: unset or empty, a word, a text with a space in it.
AuthKeys == {<<>>, <<"k">>, <<"k", " ", "2">>}

Bearer == <<"B", "e", "a", "r", "e", "r">>

\* The Authorization headers of the requests; the empty one is a request
\* without the header.
AuthHeaders ==
    {<<>>, Bearer, <<"k">>,
     Bearer \o <<" ", "k">>,
     Bearer \o <<" ", " ", "k">>,
     Bearer \o <<" ", "k", " ", "2">>,
     Bearer \o <<" ", "x">>,
     <<"b", "e", "a", "r", "e", "r", " ", "k">>,
     <<"B", "a", "s", "i", "c", " ", "k">>}

\* The request bodies: one that cannot be read, an empty one, and texts that
\* are no YAML, a YAML scalar, a YAML mapping, or blank.
Bodies ==
    {[readable |-> FALSE, empty |-> FALSE, yaml |-> "mapping"],
     [readable |-> TRUE, empty |-> TRUE, yaml |-> "blank"]}
        \cup {[readable |-> TRUE, empty |-> FALSE, yaml |-> y] :
                y \in {"invalid", "scalar", "mapping", "blank"}}

\* yaml.Unmarshal(body, &testConfig) into a map[string]interface{} returns no
\* error: the text is a mapping, or has no node at all.
UnmarshalOK(body) == body.yaml \in {"mapping", "blank"}

\* strings.SplitN(s, sep, 2): s cut at its first sep, or s alone.
RECURSIVE SplitN2From(_, _, _)
SplitN2From(s, sep, piece) ==
    IF s = <<>> THEN <<piece>>
    ELSE IF Head(s) = sep THEN <<piece, Tail(s)>>
    ELSE SplitN2From(Tail(s), sep, Append(piece, Head(s)))

SplitN2(s, sep) == SplitN2From(s, sep, <<>>)

\* A check of the token alone, whatever the scheme before it.
validateAuthByToken(authHeader, authKey) ==
    IF authHeader = <<>> THEN FALSE
    ELSE LET parts == SplitN2(authHeader, " ")
         IN  IF Len(parts) # 2 THEN FALSE ELSE parts[2] = authKey

\* Lines 841-854; parts is indexed from 0 in the code and from 1 here.
validateAuth(authHeader, authKey) ==
    IF authHeader = <<>> THEN FALSE
    ELSE LET parts == SplitN2(authHeader, " ")
         IN  IF Len(parts) # 2 \/ parts[1] # Bearer THEN FALSE
             ELSE parts[2] = authKey

InitWeb ==
    /\ envAuthKey \in AuthKeys
    /\ srv = [created |-> FALSE, authKey |-> <<>>]
    /\ request \in [method : {"GET", "POST", "PUT"}, auth : AuthHeaders, body : Bodies]
    /\ wpc = "new"
    /\ status = 0
    /\ performed = FALSE
    /\ IdleOutsideWeb

\* Lines 750-754: New returns an error when AUTH_KEY is empty.
NewWithoutKey ==
    /\ wpc = "new"
    /\ envAuthKey = <<>>
    /\ wpc' = "noserver"
    /\ UNCHANGED <<envAuthKey, srv, request, status, performed>>
    /\ UNCHANGED outsideWeb

\* Lines 756-760: New returns a Server that keeps the key.
NewServer ==
    /\ wpc = "new"
    /\ envAuthKey # <<>>
    /\ srv' = [created |-> TRUE, authKey |-> envAuthKey]
    /\ wpc' = "serving"
    /\ UNCHANGED <<envAuthKey, request, status, performed>>
    /\ UNCHANGED outsideWeb

\* Lines 791-794.
RejectMethod ==
    /\ wpc = "serving"
    /\ request.method # "POST"
    /\ status' = 405
    /\ wpc' = "responded"
    /\ UNCHANGED <<envAuthKey, srv, request, performed>>
    /\ UNCHANGED outsideWeb

\* Lines 797-801.
RejectAuth ==
    /\ wpc = "serving"
    /\ request.method = "POST"
    /\ ~validateAuth(request.auth, srv.authKey)
    /\ status' = 401
    /\ wpc' = "responded"
    /\ UNCHANGED <<envAuthKey, srv, request, performed>>
    /\ UNCHANGED outsideWeb

\* Lines 804-821: the body cannot be read, is empty, or does not unmarshal.
RejectBody ==
    /\ wpc = "serving"
    /\ request.method = "POST"
    /\ validateAuth(request.auth, srv.authKey)
    /\ \/ ~request.body.readable
       \/ request.body.empty
       \/ ~UnmarshalOK(request.body)
    /\ status' = 400
    /\ wpc' = "responded"
    /\ UNCHANGED <<envAuthKey, srv, request, performed>>
    /\ UNCHANGED outsideWeb

\* Lines 826-836: performSpeedTest is called; its error gives 500, its result
\* 200.
SpeedTest ==
    /\ wpc = "serving"
    /\ request.method = "POST"
    /\ validateAuth(request.auth, srv.authKey)
    /\ request.body.readable /\ ~request.body.empty /\ UnmarshalOK(request.body)
    /\ performed' = TRUE
    /\ status' \in {200, 500}
    /\ wpc' = "responded"
    /\ UNCHANGED <<envAuthKey, srv, request>>
    /\ UNCHANGED outsideWeb

NextWeb ==
    \/ NewWithoutKey
    \/ NewServer
    \/ RejectMethod
    \/ RejectAuth
    \/ RejectBody
    \/ SpeedTest

\* webserver.New and one request to /speedtest.
SpecWeb == InitWeb /\ [][NextWeb]_vars

\* The header is "Bearer", one space, and the server's key.
BearerOfKey == request.auth = Bearer \o <<" ">> \o envAuthKey

\* The body is not empty and parses as YAML.
BodyParses == request.body.readable /\ ~request.body.empty /\ request.body.yaml # "invalid"

\* C30: the /speedtest handler runs a speed test only for a POST request
\* whose Authorization header is exactly "Bearer <token>" with the token
\* equal to AUTH_KEY and whose body is not empty and parses as YAML; the
\* checks are made in that order (405, then 401, then 400), and after a
\* failed check nothing is loaded or tested. No server is made when AUTH_KEY
\* is empty.
C30_SpeedTestOnlyWhenAuthorised ==
    /\ performed => /\ request.method = "POST"
                    /\ BearerOfKey
                    /\ BodyParses
    /\ wpc = "responded" =>
        /\ request.method # "POST" => status = 405
        /\ (request.method = "POST" /\ ~BearerOfKey) => status = 401
        /\ (request.method = "POST" /\ BearerOfKey /\ ~BodyParses) => status = 400
    /\ status \in {405, 401, 400} => ~performed
    /\ envAuthKey = <<>> => ~srv.created /\ status = 0 /\ ~performed
    /\ srv.created => srv.authKey = envAuthKey /\ envAuthKey # <<>>

\* A speed test was run for a key that has a space in it.
C30_Witness ==
    /\ performed
    /\ status = 200
    /\ envAuthKey = <<"k", " ", "2">>

====
